---------------------------- MODULE Spec2Model ----------------------------
(***************************************************************************)
(* MuteOne desktop: the separation pipeline of the main window             *)
(* (src/main.py, src/processor.py, src/model_manager.py), the QThread      *)
(* pipeline with its quarantining ModelManager (src/audio/processor.py).   *)
(*                                                                         *)
(* Three specifications share the module:                                  *)
(*   SpecWin   the window driving the shared AudioProcessor on worker      *)
(*             threads, interleaved with the GUI thread;                   *)
(*   SpecAudio jobs of the QThread AudioProcessor, each with its own       *)
(*             ModelManager, writing through save_output;                  *)
(*   SpecMgr   one ModelManager receiving load_model_safely calls;         *)
(*   SpecJobs  the jobs of either pipeline;                                *)
(*   SpecPlayer  one AudioPlayer (src/audio/player.py) under calls from    *)
(*             the GUI thread, interleaved with the audio thread of the    *)
(*             output streams it opens;                                    *)
(*   SpecOverdub  one OverdubRecorder (src/audio/overdub.py);              *)
(*   SpecRecorder  one LiveLevelMonitor and one LiveRecorder                *)
(*             (src/ui/record.py), their threads and the wall clock;       *)
(*   SpecFunctions  the buffer, device and model a job is given            *)
(*             (src/audio/processor.py, src/processor.py,                  *)
(*             src/model_manager.py);                                      *)
(*   SpecDevices  the input device the threads of src/ui/record.py select. *)
(***************************************************************************)
EXTENDS Integers, Sequences, FiniteSets, TLC

VARIABLES
    \* ---- window (src/main.py) and shared pipeline (src/processor.py)
    current_file,       \* MuteOne.current_file: NoFile or an input
    start_btn,          \* start_btn.isEnabled()
    cancelled,          \* AudioProcessor.cancelled
    current_mdx,        \* AudioProcessor._current_mdx_model: 0 (None) or the job owning the wrapper
    job,                \* worker threads of start_separation, by job number
    downloads,          \* files of the Downloads folder: path -> content
    \* ---- observation of the window's jobs
    wstatus,            \* per job: status messages emitted by run()
    wprogress,          \* per job: progress values emitted by run()
    wfinished,          \* per job: payloads of processing_finished
    wcancelHit,         \* per job: cancel() was called while the job was started and not finished
    wwrites,            \* per job: the writes it made, <<path, existed before the write, content>>
    \* ---- QThread pipeline (src/audio/processor.py)
    ajob,               \* AudioProcessor threads, by job number
    outdir,             \* files of output_dir: path -> content
    astatus,            \* per job: status_updated payloads
    aprogress,          \* per job: progress_updated payloads
    acomplete,          \* per job: processing_complete payloads
    aerror,             \* per job: number of error_occurred emissions
    awrites,            \* per job: the writes it made, <<path, existed before the write, content>>
    loadAttempts,       \* backend load attempts of the process, by model name
    everFailed,         \* model names whose load failed in some job of the process
    model_sources,      \* model.sources of the multi-stem model: its stem labels, in order
    mdx_outputs,        \* stem files in the output directory of the MDX separator
    \* ---- one ModelManager under repeated calls
    failed_models,      \* ModelManager.failed_models
    mgrCalls,           \* load_model_safely calls on this manager, by model name
    mgrAttempts,        \* backend load attempts on this manager, by model name
    mgrFirst,           \* outcome of the first load_model_safely call, by model name
    mgrLast,            \* the last call: its model name and its result
    \* ---- AudioPlayer (src/audio/player.py) and the output streams it opens
    data,               \* AudioPlayer.data: NoData (None) or the loaded buffer [len, ch]
    samplerate,         \* AudioPlayer.samplerate
    position,           \* AudioPlayer.position: the cursor, in frames
    is_playing,         \* AudioPlayer.is_playing
    in_play,            \* play() has started its stream and not yet set is_playing
    stream,             \* AudioPlayer.stream: 0 (None) or the id of a stream
    streams,            \* the output streams of the process, by id: [st, channels]
    \* ---- observation of the player
    sess,               \* the playback begun by the last play(), while nothing else
                        \* touched the player: [from, start, log, done], NoSess otherwise
    \* ---- OverdubRecorder (src/audio/overdub.py)
    backing_data,       \* OverdubRecorder.backing_data: NoData (None) or [len, ch]
    dub_rate,           \* OverdubRecorder.samplerate
    dub,                \* the record_overdub call: [pc, duration, path, recorded, idx, st]
    dub_files,          \* the files record_overdub writes: path -> mix
    \* ---- observation of the recorder
    dub_opened,         \* streams record_overdub has opened
    dub_result,         \* how the last call on the recorder ended
    \* ---- LiveLevelMonitor (src/ui/record.py)
    is_monitoring,      \* LiveLevelMonitor.is_monitoring
    mthread,            \* where the monitor's run() is: idle (not running), begin, loop, read, close
    mon_open,           \* input streams the monitor has open
    \* ---- LiveRecorder (src/ui/record.py)
    is_recording,       \* LiveRecorder.is_recording
    audio_data,         \* LiveRecorder.audio_data: the number of blocks it holds
    temp_file_path,     \* LiveRecorder.temp_file_path: NoTempPath (None) or a path
    start_time,         \* LiveRecorder.start_time
    rthread,            \* where the recorder's run() is: idle, begin, loop, read, close, save
    rec_open,           \* input streams the recorder has open
    rec_files,          \* files of the temporary directory: path -> blocks written
    \* ---- observation of the recorder, and the wall clock
    rec_events,         \* the signals the recorder emitted, in order
    session_paths,      \* the path given to each session, in order of start
    proto,              \* the order of the calls made so far, see Protocol
    clock,              \* time.time(), in ticks
    \* ---- the last call of each function of the pipelines
    fed,                \* the buffer last prepared for a separation backend
    picked,             \* the execution target last picked for a job
    routed,             \* the models last chosen for a task
    chosen              \* the input device last selected by a thread of record.py

winVars == <<current_file, start_btn, cancelled, current_mdx,
             job, downloads, wstatus, wprogress, wfinished, wcancelHit, wwrites>>
audVars == <<ajob, outdir, astatus, aprogress, acomplete, aerror, awrites>>
procVars == <<loadAttempts, everFailed, model_sources, mdx_outputs>>
mgrVars == <<failed_models, mgrCalls, mgrAttempts, mgrFirst, mgrLast>>
playVars == <<data, samplerate, position, is_playing, in_play, stream, streams, sess>>
dubVars == <<backing_data, dub_rate, dub, dub_files, dub_opened, dub_result>>
monitorVars == <<is_monitoring, mthread, mon_open>>
recorderVars == <<is_recording, audio_data, temp_file_path, start_time, rthread, rec_open,
                  rec_files, rec_events, session_paths>>
recVars == <<monitorVars, recorderVars, proto, clock>>
fnVars == <<fed, picked, routed, chosen>>
boothVars == <<playVars, dubVars, recVars, fnVars>>
vars == <<winVars, audVars, procVars, mgrVars, boothVars>>

---------------------------------------------------------------------------
\* Bounds of the model.
MaxJobs == 2          \* separation jobs started through the window
MaxAudioJobs == 2     \* QThread jobs constructed
MaxSuffix == 2        \* pre-existing output files carry suffixes 0..MaxSuffix
MaxCalls == 3         \* load_model_safely calls per model name on the single manager

Jobs == 1..MaxJobs
AJobs == 1..MaxAudioJobs

NoFile == "(none)"
NoPath == <<>>

\* Inputs, by the stem of their file name.
Inputs == {"song"}

\* Radio buttons of the window the user checks.  run() routes on "vocals"
\* or not, so two of the three other buttons stand for all three.
RadioTexts == {"Vocals", "Drums", "Bass"}

\* str.lower() on the strings of the model.
Lower(s) ==
    CASE s = "Vocals" -> "vocals"
      [] s = "Drums"  -> "drums"
      [] s = "Bass"   -> "bass"
      [] s = "Other"  -> "other"
      [] OTHER        -> s

\* model.sources of the multi-stem backend: the labels of the stems it returns, in order.
SourceLists ==
    { <<"drums", "bass", "other", "vocals">>,
      <<"Vocals", "Drums", "Bass", "Other">> }

\* Sample content of a stem: the stems of a mix are told apart by weight, so
\* that a sum of stems names the set of stems summed.
Weight(label) ==
    CASE Lower(label) = "vocals" -> 1
      [] Lower(label) = "drums"  -> 2
      [] Lower(label) = "bass"   -> 4
      [] Lower(label) = "other"  -> 8
      [] OTHER                   -> 0

\* What apply_model returns for a source list: one stem per label.
Stems(sources) == [i \in 1..Len(sources) |-> Weight(sources[i])]

RECURSIVE SumSeq(_)
SumSeq(s) == IF s = <<>> THEN 0 ELSE Head(s) + SumSeq(Tail(s))

\* The instrumental output of the single-stem isolator: everything but the vocals.
Instrumental == Weight("drums") + Weight("bass") + Weight("other")


---------------------------------------------------------------------------
\* The main window and the shared pipeline (src/main.py, src/processor.py).

\* Positions of a worker thread inside AudioProcessor.run.
RunPcs == {"mdx_load", "mdx_separate", "mdx_save", "dm_load", "dm_apply", "dm_save"}

\* A worker thread that start_separation has not created yet.
\* mix is a local of run(): it is gone when run() returns.
IdleJob == [pc |-> "idle", choice |-> "", file |-> NoFile, sep |-> "none",
            backends |-> {}, released |-> FALSE, ret |-> NoPath, mix |-> 0]

\* Model names the pipelines request.
MdxInst == "UVR-MDX-NET-Inst_HQ_1.onnx"
Demucs == "htdemucs_ft"
MdxVoc == "UVR-MDX-NET-Voc_FT.onnx"

\* f"{stem}_no_{instrument}.wav" in the Downloads folder.
NoPathName(stem, instrument) == <<stem, "_no_", instrument>>

\* The stems run() keeps, in the order of model.sources.
KeptIdx(sources, instrument) ==
    SelectSeq([i \in 1..Len(sources) |-> i], LAMBDA i : Lower(sources[i]) # instrument)

\* One more backend load attempt of model `name`, failed or not.
CountLoad(name, ok) ==
    /\ loadAttempts' = [loadAttempts EXCEPT ![name] = @ + 1]
    /\ everFailed' = IF ok THEN everFailed ELSE everFailed \cup {name}
    /\ UNCHANGED <<model_sources, mdx_outputs>>

Emit(log, t, msg) == [log EXCEPT ![t] = Append(@, msg)]
EmitAll(log, t, msgs) == [log EXCEPT ![t] = @ \o msgs]

WinRest == <<current_file, start_btn>>

upload_file(f) ==
    /\ current_file' = f
    /\ UNCHANGED <<start_btn, cancelled, current_mdx, job,
                   downloads, wstatus, wprogress, wfinished, wcancelHit, wwrites>>
    /\ UNCHANGED <<audVars, procVars, mgrVars, boothVars>>

\* start_separation with no file uploaded: show_error and return.
start_separation_no_file ==
    /\ start_btn
    /\ current_file = NoFile
    /\ UNCHANGED <<winVars, audVars, procVars, mgrVars, boothVars>>

\* start_separation with radio button `r` checked: disables the button and
\* starts a worker thread that will call run(current_file, "", [choice]).
start_separation(t, r) ==
    /\ start_btn
    /\ current_file # NoFile
    /\ job[t].pc = "idle"
    /\ \A u \in Jobs : u < t => job[u].pc # "idle"
    /\ start_btn' = FALSE
    /\ job' = [job EXCEPT ![t] = [@ EXCEPT !.pc = "spawned", !.choice = Lower(r)]]
    /\ UNCHANGED <<current_file, cancelled, current_mdx,
                   downloads, wstatus, wprogress, wfinished, wcancelHit, wwrites>>
    /\ UNCHANGED <<audVars, procVars, mgrVars, boothVars>>

\* AudioProcessor.cancel: sets the flag and cleans the current MDX wrapper up.
cancel ==
    /\ cancelled' = TRUE
    /\ job' = IF current_mdx # 0
              THEN [job EXCEPT ![current_mdx] = [@ EXCEPT !.sep = "none", !.released = TRUE]]
              ELSE job

\* cancel_separation: cancels the pipeline and enables the button again.
cancel_separation ==
    /\ cancel
    /\ start_btn' = TRUE
    /\ wcancelHit' = [t \in Jobs |->
                        wcancelHit[t] \/ job[t].pc \in RunPcs \cup {"spawned"}]
    /\ UNCHANGED <<current_file, current_mdx,
                   downloads, wstatus, wprogress, wfinished, wwrites>>
    /\ UNCHANGED <<audVars, procVars, mgrVars, boothVars>>

\* on_finished, the slot of signals.finished, which the worker emits when
\* run() returned a path: the button is enabled again.
on_finished(t) ==
    /\ job[t].pc = "returned"
    /\ start_btn' = TRUE
    /\ job' = [job EXCEPT ![t] = [@ EXCEPT !.pc = "end"]]
    /\ UNCHANGED <<current_file, cancelled, current_mdx,
                   downloads, wstatus, wprogress, wfinished, wcancelHit, wwrites>>
    /\ UNCHANGED <<audVars, procVars, mgrVars, boothVars>>

\* The instrument run() routes on: instruments_to_remove[0].lower().
Instrument(t) == Lower(job[t].choice)

\* A variant of the except clause that completes the progress bar.
RunFails_full_bar(t, msgs) ==
    /\ wstatus' = EmitAll(wstatus, t, msgs \o <<"Error">>)
    /\ wfinished' = Emit(wfinished, t, NoPath)
    /\ wprogress' = Emit(wprogress, t, 100)

\* The except clause of run(), after the status messages `msgs` of the
\* failing step: the error status, the empty completion, None returned (on
\* which the worker emits no finished signal).
RunFails(t, msgs) ==
    /\ wstatus' = EmitAll(wstatus, t, msgs \o <<"Error">>)
    /\ wfinished' = Emit(wfinished, t, NoPath)
    /\ UNCHANGED wprogress

\* The notifications of a successful run(), whose return value is `path`.
RunSucceeds(t, path) ==
    /\ wprogress' = Emit(wprogress, t, 100)
    /\ wstatus' = Emit(wstatus, t, "Processing complete")
    /\ wfinished' = Emit(wfinished, t, path)

\* run(), from its entry to the routing: clears the flag, loads the input
\* (which the worker reads from the window when it calls run) and routes on
\* the instrument; on the vocals route the MDX wrapper is constructed.
run_begin(t, ok) ==
    /\ job[t].pc = "spawned"
    /\ cancelled' = FALSE
    /\ IF ~ok
       THEN /\ job' = [job EXCEPT ![t] = [@ EXCEPT !.pc = "end", !.file = current_file]]
            /\ RunFails(t, <<"Loading audio file...">>)
            /\ UNCHANGED current_mdx
       ELSE IF Instrument(t) = "vocals"
       THEN /\ job' = [job EXCEPT ![t] = [@ EXCEPT !.pc = "mdx_load", !.file = current_file,
                                                   !.backends = @ \cup {"mdx"}]]
            /\ current_mdx' = t
            /\ wstatus' = EmitAll(wstatus, t, <<"Loading audio file...",
                                               "Removing vocals with MDX...">>)
            /\ wprogress' = Emit(wprogress, t, 30)
            /\ UNCHANGED wfinished
       ELSE /\ job' = [job EXCEPT ![t] = [@ EXCEPT !.pc = "dm_load", !.file = current_file]]
            /\ wstatus' = EmitAll(wstatus, t, <<"Loading audio file...",
                                               "Processing with Demucs...">>)
            /\ wprogress' = Emit(wprogress, t, 30)
            /\ UNCHANGED <<current_mdx, wfinished>>
    /\ UNCHANGED <<WinRest, downloads, wcancelHit, wwrites>>
    /\ UNCHANGED <<audVars, procVars, mgrVars, boothVars>>

\* MDXModelWrapper.__call__, first half: the separator is built and loads
\* the model.  A failure is reported, re-raised through the finally of
\* run(), which cleans the wrapper up, and ends in the except clause.
mdx_load(t, ok) ==
    /\ job[t].pc = "mdx_load"
    /\ CountLoad(MdxInst, ok)
    /\ IF ok
       THEN /\ job' = [job EXCEPT ![t] = [@ EXCEPT !.pc = "mdx_separate", !.sep = "loaded",
                                                   !.released = FALSE]]
            /\ wstatus' = Emit(wstatus, t, "Loading vocal removal engine...")
            /\ UNCHANGED <<wfinished, wprogress>>
       ELSE /\ job' = [job EXCEPT ![t] = [@ EXCEPT !.pc = "end", !.sep = "none",
                                                   !.released = TRUE]]
            /\ RunFails(t, <<"Loading vocal removal engine...", "Vocal removal error">>)
    /\ UNCHANGED <<WinRest, cancelled, current_mdx, downloads, wcancelHit, wwrites>>
    /\ UNCHANGED <<audVars, mgrVars, boothVars>>

\* The stems the wrapper finds after separate(): those the backend yielded
\* in this call, and, by the fallback scan of the separator's output
\* directory, those an earlier call left there.
stems_found(yielded, left) == yielded \cup left

\* What the backend yields: both stems ("ok"), the vocal stem only
\* ("missing"), or nothing as separate() raises.
Yielded(out) ==
    CASE out = "ok"      -> {"vocals", "instrumental"}
      [] out = "missing" -> {"vocals"}
      [] OTHER           -> {}

\* MDXModelWrapper.__call__, second half, and the finally of run(): separate,
\* collect both stems, clean the wrapper up.  A separator that cancel() has
\* cleaned up in between is None here, and the call on it raises.  The
\* output directory tempdir/omotiv_outputs is never emptied.
mdx_separate(t, out) ==
    /\ job[t].pc = "mdx_separate"
    /\ LET ran == job[t].sep = "loaded" /\ out # "raise"
           found == stems_found(Yielded(out), mdx_outputs)
       IN /\ mdx_outputs' = IF ran THEN mdx_outputs \cup Yielded(out) ELSE mdx_outputs
          /\ IF ran /\ found = {"vocals", "instrumental"}
             THEN /\ job' = [job EXCEPT ![t] = [@ EXCEPT !.pc = "mdx_save", !.sep = "none",
                                                         !.released = TRUE, !.mix = Instrumental]]
                  /\ wstatus' = Emit(wstatus, t, "Separating vocals...")
                  /\ UNCHANGED <<wfinished, wprogress>>
             ELSE /\ job' = [job EXCEPT ![t] = [@ EXCEPT !.pc = "end", !.sep = "none",
                                                         !.released = TRUE]]
                  /\ RunFails(t, <<"Separating vocals...", "Vocal removal error">>)
    /\ UNCHANGED <<WinRest, cancelled, current_mdx, downloads, wcancelHit, wwrites>>
    /\ UNCHANGED <<loadAttempts, everFailed, model_sources>>
    /\ UNCHANGED <<audVars, mgrVars, boothVars>>

\* run(), vocals path: the instrumental is saved under the _no_vocals name.
mdx_save(t, ok) ==
    /\ job[t].pc = "mdx_save"
    /\ LET path == NoPathName(job[t].file, "vocals") IN
       IF ok
       THEN /\ downloads' = (path :> job[t].mix) @@ downloads
            /\ wwrites' = Emit(wwrites, t, <<path, path \in DOMAIN downloads, job[t].mix>>)
            /\ RunSucceeds(t, path)
            /\ job' = [job EXCEPT ![t] = [@ EXCEPT !.pc = "returned", !.ret = path, !.mix = 0]]
       ELSE /\ job' = [job EXCEPT ![t] = [@ EXCEPT !.pc = "end", !.mix = 0]]
            /\ RunFails(t, <<>>)
            /\ UNCHANGED <<downloads, wwrites>>
    /\ UNCHANGED <<WinRest, cancelled, current_mdx, wcancelHit>>
    /\ UNCHANGED <<audVars, procVars, mgrVars, boothVars>>

\* ModelManager.load_model_safely of src/model_manager.py, as run() calls it
\* for the Demucs path.
win_load_model_safely(t, ok) ==
    /\ job[t].pc = "dm_load"
    /\ CountLoad(Demucs, ok)
    /\ IF ok
       THEN /\ job' = [job EXCEPT ![t] = [@ EXCEPT !.pc = "dm_apply",
                                                   !.backends = @ \cup {"demucs"}]]
            /\ wstatus' = Emit(wstatus, t, "Loading model")
            /\ UNCHANGED <<wfinished, wprogress>>
       ELSE /\ job' = [job EXCEPT ![t] = [@ EXCEPT !.pc = "end"]]
            /\ RunFails(t, <<"Loading model", "Error loading model">>)
    /\ UNCHANGED <<WinRest, cancelled, current_mdx, downloads, wcancelHit, wwrites>>
    /\ UNCHANGED <<audVars, mgrVars, boothVars>>

\* run(), Demucs path: apply_model.
dm_apply(t, ok) ==
    /\ job[t].pc = "dm_apply"
    /\ IF ok
       THEN /\ job' = [job EXCEPT ![t] = [@ EXCEPT !.pc = "dm_save"]]
            /\ UNCHANGED <<wstatus, wfinished, wprogress>>
       ELSE /\ job' = [job EXCEPT ![t] = [@ EXCEPT !.pc = "end"]]
            /\ RunFails(t, <<>>)
    /\ UNCHANGED <<WinRest, cancelled, current_mdx, downloads, wcancelHit, wwrites>>
    /\ UNCHANGED <<audVars, procVars, mgrVars, boothVars>>

\* The content of out_path after the first n saves of the Demucs loop: each
\* save replaces the file, so the n-th kept stem is what it holds.
DmWritten(sources, instrument, n) ==
    Stems(sources)[KeptIdx(sources, instrument)[n]]

\* run(), Demucs path: every kept stem is saved to out_path in turn; n saves
\* succeed, and a failing save raises.
dm_save(t, n) ==
    /\ job[t].pc = "dm_save"
    /\ LET path == NoPathName(job[t].file, Instrument(t))
           kept == KeptIdx(model_sources, Instrument(t))
       IN
       /\ n \in 0..Len(kept)
       /\ IF n >= 1
          THEN /\ downloads' = (path :> DmWritten(model_sources, Instrument(t), n)) @@ downloads
               /\ wwrites' = Emit(wwrites, t, <<path, path \in DOMAIN downloads,
                                                DmWritten(model_sources, Instrument(t), n)>>)
          ELSE UNCHANGED <<downloads, wwrites>>
       /\ IF n = Len(kept)
          THEN /\ RunSucceeds(t, path)
               /\ job' = [job EXCEPT ![t] = [@ EXCEPT !.pc = "returned", !.ret = path, !.mix = 0]]
          ELSE /\ job' = [job EXCEPT ![t] = [@ EXCEPT !.pc = "end"]]
               /\ RunFails(t, <<>>)
    /\ UNCHANGED <<WinRest, cancelled, current_mdx, wcancelHit>>
    /\ UNCHANGED <<audVars, procVars, mgrVars, boothVars>>

ModelNames == {Demucs, MdxInst, MdxVoc}

WinIdle ==
    /\ current_file = NoFile
    /\ start_btn = TRUE
    /\ cancelled = FALSE
    /\ current_mdx = 0
    /\ job = [t \in Jobs |-> IdleJob]
    /\ downloads = <<>>
    /\ wstatus = [t \in Jobs |-> <<>>]
    /\ wprogress = [t \in Jobs |-> <<>>]
    /\ wfinished = [t \in Jobs |-> <<>>]
    /\ wcancelHit = [t \in Jobs |-> FALSE]
    /\ wwrites = [t \in Jobs |-> <<>>]

ProcIdle ==
    /\ loadAttempts = [m \in ModelNames |-> 0]
    /\ everFailed = {}
    /\ model_sources \in SourceLists
    /\ mdx_outputs = {}

NextWin ==
    \/ \E f \in Inputs : upload_file(f)
    \/ start_separation_no_file
    \/ \E t \in Jobs, r \in RadioTexts : start_separation(t, r)
    \/ cancel_separation
    \/ \E t \in Jobs : on_finished(t)
    \/ \E t \in Jobs, ok \in BOOLEAN : run_begin(t, ok)
    \/ \E t \in Jobs, ok \in BOOLEAN : mdx_load(t, ok)
    \/ \E t \in Jobs, out \in {"ok", "missing", "raise"} : mdx_separate(t, out)
    \/ \E t \in Jobs, ok \in BOOLEAN : mdx_save(t, ok)
    \/ \E t \in Jobs, ok \in BOOLEAN : win_load_model_safely(t, ok)
    \/ \E t \in Jobs, ok \in BOOLEAN : dm_apply(t, ok)
    \/ \E t \in Jobs : \E n \in 0..Len(model_sources) : dm_save(t, n)

---------------------------------------------------------------------------
\* ModelManager of src/audio/processor.py.

\* is_mdx_model: "MDX" in model_name or "UVR" in model_name.
is_mdx_model(name) == name \in {MdxInst, MdxVoc}

\* load_model_safely without the failed_models.add of its except clause.
load_model_safely_forgets(failed, name, ok) ==
    IF name \in failed
    THEN [result |-> "previously_failed", failed |-> failed, attempted |-> FALSE]
    ELSE IF ok
    THEN [result |-> "loaded", failed |-> failed, attempted |-> TRUE]
    ELSE [result |-> "load_failed", failed |-> failed, attempted |-> TRUE]

\* load_model_safely with a failed set that a successful load empties.
load_model_safely_clears(failed, name, ok) ==
    IF name \in failed
    THEN [result |-> "previously_failed", failed |-> failed, attempted |-> FALSE]
    ELSE IF ok
    THEN [result |-> "loaded", failed |-> {}, attempted |-> TRUE]
    ELSE [result |-> "load_failed", failed |-> failed \cup {name}, attempted |-> TRUE]

\* load_model_safely on a manager whose failed_models is `failed`; `ok` is
\* what the backend loader does if it is invoked.  The result names the
\* outcome, the manager's failed_models afterwards, and whether the backend
\* loader was invoked.
load_model_safely(failed, name, ok) ==
    IF name \in failed
    THEN [result |-> "previously_failed", failed |-> failed, attempted |-> FALSE]
    ELSE IF ok
    THEN [result |-> "loaded", failed |-> failed, attempted |-> TRUE]
    ELSE [result |-> "load_failed", failed |-> failed \cup {name}, attempted |-> TRUE]

\* The status message load_model_safely emits before it loads.
LoadStatus(name) == IF is_mdx_model(name) THEN "Loading MDX" ELSE "Loading Demucs"

\* One call of load_model_safely on the single manager.
mgr_load_model_safely(name, ok) ==
    /\ mgrCalls[name] < MaxCalls
    /\ LET r == load_model_safely(failed_models, name, ok) IN
       /\ failed_models' = r.failed
       /\ mgrAttempts' = [mgrAttempts EXCEPT ![name] = IF r.attempted THEN @ + 1 ELSE @]
       /\ mgrFirst' = [mgrFirst EXCEPT ![name] = IF @ = "none" THEN r.result ELSE @]
       /\ mgrLast' = [name |-> name, result |-> r.result]
    /\ mgrCalls' = [mgrCalls EXCEPT ![name] = @ + 1]
    /\ UNCHANGED <<winVars, audVars, procVars, boothVars>>

MgrIdle ==
    /\ failed_models = {}
    /\ mgrAttempts = [m \in ModelNames |-> 0]
    /\ mgrFirst = [m \in ModelNames |-> "none"]
    /\ mgrCalls = [m \in ModelNames |-> 0]
    /\ mgrLast = [name |-> "", result |-> "none"]

NextMgr == \E name \in ModelNames, ok \in BOOLEAN : mgr_load_model_safely(name, ok)

---------------------------------------------------------------------------
\* The QThread pipeline of src/audio/processor.py.

\* instruments_to_remove of a job, as its caller passes it.
InstrumentLists == { <<>>, <<"vocals">>, <<"drums">>, <<"Drums">> }

NewAJob == [pc |-> "new", file |-> NoFile, instruments |-> <<>>,
            failed |-> {}, backends |-> {},
            released |-> FALSE, mix |-> 0, path |-> NoPath, seen |-> {}]

\* f"{base_name}.wav" for counter 0 and f"{base_name}_{counter}.wav" otherwise,
\* with base_name = f"{input_path.stem}_muteone_no_{instrument_name}".
OutName(stem, instrument, counter) == <<stem, "_muteone_no_", instrument, counter>>

\* The while loop of save_output: the first counter, from `counter` on,
\* whose name is not among the existing files.
RECURSIVE FreeCounter(_, _, _, _)
FreeCounter(stem, instrument, existing, counter) ==
    IF OutName(stem, instrument, counter) \in existing
    THEN FreeCounter(stem, instrument, existing, counter + 1)
    ELSE counter

\* save_output with an if in place of its while: one suffix is tried.
save_output_path_once(stem, instruments, existing) ==
    LET instrument_name == IF instruments # <<>> THEN instruments[1] ELSE "unknown"
    IN OutName(stem, instrument_name,
               IF OutName(stem, instrument_name, 0) \in existing THEN 1 ELSE 0)

\* The output path save_output settles on, given the files that exist.
save_output_path(stem, instruments, existing) ==
    LET instrument_name == IF instruments # <<>> THEN instruments[1] ELSE "unknown"
    IN OutName(stem, instrument_name, FreeCounter(stem, instrument_name, existing, 0))

\* final_mix of run(): the sum of the stems whose label differs from the instrument.
final_mix(sources, instrument) ==
    SumSeq([i \in 1..Len(sources) |->
              IF sources[i] # instrument THEN Stems(sources)[i] ELSE 0])

AEmit(log, j, msg) == [log EXCEPT ![j] = Append(@, msg)]

\* The except clause of run(): error_occurred is emitted and the thread ends.
AFails(j) ==
    /\ aerror' = [aerror EXCEPT ![j] = @ + 1]

\* AudioProcessor(input_file, output_dir, instruments_to_remove).start(): the
\* job is constructed with a ModelManager of its own.
a_start(j, f, ins) ==
    /\ ajob[j].pc = "new"
    /\ \A i \in AJobs : i < j => ajob[i].pc # "new"
    /\ ajob' = [ajob EXCEPT ![j] = [@ EXCEPT !.pc = "load_audio", !.file = f,
                                             !.instruments = ins, !.failed = {}]]
    /\ UNCHANGED <<outdir, astatus, aprogress, acomplete, aerror, awrites>>
    /\ UNCHANGED <<winVars, procVars, mgrVars, boothVars>>

\* run(): the input is loaded and the instrument read off the list.
a_load_audio(j, ok) ==
    /\ ajob[j].pc = "load_audio"
    /\ aprogress' = IF ok /\ ajob[j].instruments # <<>>
                    THEN [aprogress EXCEPT ![j] = @ \o <<10, 40>>]
                    ELSE AEmit(aprogress, j, 10)
    /\ astatus' = IF ok /\ ajob[j].instruments # <<>>
                  THEN [astatus EXCEPT ![j] = @ \o <<"Loading audio...", "Processing with htdemucs_ft...">>]
                  ELSE AEmit(astatus, j, "Loading audio...")
    /\ IF ok /\ ajob[j].instruments # <<>>
       THEN /\ ajob' = [ajob EXCEPT ![j] = [@ EXCEPT !.pc = "load_model"]]
            /\ UNCHANGED aerror
       ELSE /\ ajob' = [ajob EXCEPT ![j] = [@ EXCEPT !.pc = "done"]]
            /\ AFails(j)
    /\ UNCHANGED <<outdir, acomplete, awrites>>
    /\ UNCHANGED <<winVars, procVars, mgrVars, boothVars>>

\* run(): self.model_manager.load_model_safely("htdemucs_ft", ...) on the job's own manager.
a_load_model(j, ok) ==
    /\ ajob[j].pc = "load_model"
    /\ LET r == load_model_safely(ajob[j].failed, Demucs, ok) IN
       /\ IF r.attempted THEN CountLoad(Demucs, ok) ELSE UNCHANGED procVars
       /\ astatus' = IF r.attempted THEN AEmit(astatus, j, LoadStatus(Demucs)) ELSE astatus
       /\ IF r.result = "loaded"
          THEN /\ ajob' = [ajob EXCEPT ![j] = [@ EXCEPT !.pc = "apply",
                                                        !.backends = @ \cup {"demucs"},
                                                        !.failed = r.failed]]
               /\ UNCHANGED aerror
          ELSE /\ ajob' = [ajob EXCEPT ![j] = [@ EXCEPT !.pc = "done", !.failed = r.failed]]
               /\ AFails(j)
    /\ UNCHANGED <<outdir, aprogress, acomplete, awrites>>
    /\ UNCHANGED <<winVars, mgrVars, boothVars>>

\* run(): apply_model, the mix of the kept stems, cleanup_torch.
a_apply(j, ok) ==
    /\ ajob[j].pc = "apply"
    /\ IF ok
       THEN /\ ajob' = [ajob EXCEPT ![j] =
                          [@ EXCEPT !.pc = "save", !.released = TRUE,
                                    !.mix = final_mix(model_sources, ajob[j].instruments[1])]]
            /\ aprogress' = AEmit(aprogress, j, 70)
            /\ UNCHANGED aerror
       ELSE /\ ajob' = [ajob EXCEPT ![j] = [@ EXCEPT !.pc = "done"]]
            /\ AFails(j)
            /\ UNCHANGED aprogress
    /\ UNCHANGED <<outdir, astatus, acomplete, awrites>>
    /\ UNCHANGED <<winVars, procVars, mgrVars, boothVars>>

\* save_output, up to the end of its while loop: the output path is settled.
a_save_output_path(j) ==
    /\ ajob[j].pc = "save"
    /\ ajob' = [ajob EXCEPT ![j] =
                  [@ EXCEPT !.pc = "write", !.seen = DOMAIN outdir,
                            !.path = save_output_path(ajob[j].file, ajob[j].instruments,
                                                      DOMAIN outdir)]]
    /\ UNCHANGED <<outdir, astatus, aprogress, acomplete, aerror, awrites>>
    /\ UNCHANGED <<winVars, procVars, mgrVars, boothVars>>

\* save_output, from torchaudio.save on: the write and the completion.
a_save_output_write(j, ok) ==
    /\ ajob[j].pc = "write"
    /\ IF ok
       THEN /\ outdir' = (ajob[j].path :> ajob[j].mix) @@ outdir
            /\ awrites' = AEmit(awrites, j, <<ajob[j].path, ajob[j].path \in DOMAIN outdir,
                                               ajob[j].mix>>)
            /\ aprogress' = AEmit(aprogress, j, 100)
            /\ acomplete' = AEmit(acomplete, j, ajob[j].path)
            /\ UNCHANGED aerror
       ELSE /\ AFails(j)
            /\ UNCHANGED <<outdir, awrites, aprogress, acomplete>>
    /\ ajob' = [ajob EXCEPT ![j] = [@ EXCEPT !.pc = "done"]]
    /\ UNCHANGED astatus
    /\ UNCHANGED <<winVars, procVars, mgrVars, boothVars>>

\* Files an output directory may hold before the first job: earlier outputs
\* for the drums of the input, under the canonical name and its suffixes.
PreExisting == { OutName("song", "drums", k) : k \in 0..MaxSuffix }

AudIdle ==
    /\ ajob = [j \in AJobs |-> NewAJob]
    /\ outdir = <<>>
    /\ astatus = [j \in AJobs |-> <<>>]
    /\ aprogress = [j \in AJobs |-> <<>>]
    /\ acomplete = [j \in AJobs |-> <<>>]
    /\ aerror = [j \in AJobs |-> 0]
    /\ awrites = [j \in AJobs |-> <<>>]

NextAudio ==
    \/ \E j \in AJobs, f \in Inputs, ins \in InstrumentLists : a_start(j, f, ins)
    \/ \E j \in AJobs, ok \in BOOLEAN : a_load_audio(j, ok)
    \/ \E j \in AJobs, ok \in BOOLEAN : a_load_model(j, ok)
    \/ \E j \in AJobs, ok \in BOOLEAN : a_apply(j, ok)
    \/ \E j \in AJobs : a_save_output_path(j)
    \/ \E j \in AJobs, ok \in BOOLEAN : a_save_output_write(j, ok)

---------------------------------------------------------------------------
\* Python floats, as seek and get_duration compute with them: binary floating
\* point, round to nearest, ties to even.  The mantissa is scaled down from 53
\* bits to MantissaBits and the sample rates from 44100 to SampleRates, the
\* way the buffers are scaled down to MaxFrames frames.  A float is [m, e],
\* the number m * 2^e.

MantissaBits == 5
Pow2(k) == 2^k
Abs(n) == IF n < 0 THEN -n ELSE n
Min(a, b) == IF a <= b THEN a ELSE b
Max(a, b) == IF a >= b THEN a ELSE b

Exponents == (0 - 2 * MantissaBits)..(2 * MantissaBits)

\* num/den with the binary point moved by k places: a pair <<numerator, denominator>>.
Shifted(num, den, k) == IF k <= 0 THEN <<num * Pow2(0 - k), den>> ELSE <<num, den * Pow2(k)>>

\* The float nearest to num/den, for num >= 0 and den > 0.
RoundTo(num, den) ==
    IF num = 0 THEN [m |-> 0, e |-> 0]
    ELSE LET k == CHOOSE x \in Exponents :
                      /\ Pow2(MantissaBits - 1) * Shifted(num, den, x)[2] <= Shifted(num, den, x)[1]
                      /\ Shifted(num, den, x)[1] < Pow2(MantissaBits) * Shifted(num, den, x)[2]
             N == Shifted(num, den, k)[1]
             D == Shifted(num, den, k)[2]
             low == N \div D
             rem == N % D
             up == (2 * rem > D) \/ (2 * rem = D /\ low % 2 = 1)
             m == IF up THEN low + 1 ELSE low
         IN IF m = Pow2(MantissaBits) THEN [m |-> Pow2(MantissaBits - 1), e |-> k + 1]
            ELSE [m |-> m, e |-> k]

\* float(num) / den and x * n, each rounded once.
FloatOf(num, den) ==
    LET r == RoundTo(Abs(num), den) IN IF num < 0 THEN [r EXCEPT !.m = 0 - r.m] ELSE r
FloatTimes(x, n) ==
    IF x.e >= 0 THEN FloatOf(x.m * n * Pow2(x.e), 1) ELSE FloatOf(x.m * n, Pow2(0 - x.e))

\* int(x): truncation toward zero.
IntOf(x) ==
    IF x.e >= 0 THEN x.m * Pow2(x.e)
    ELSE IF x.m >= 0 THEN x.m \div Pow2(0 - x.e) ELSE 0 - ((0 - x.m) \div Pow2(0 - x.e))

\* x < num/den, exactly.
FloatBelow(x, num, den) ==
    IF x.e >= 0 THEN x.m * Pow2(x.e) * den < num ELSE x.m * den < num * Pow2(0 - x.e)
FloatAbove(x, num, den) ==
    IF x.e >= 0 THEN x.m * Pow2(x.e) * den > num ELSE x.m * den > num * Pow2(0 - x.e)

---------------------------------------------------------------------------
\* AudioPlayer of src/audio/player.py and the audio thread of its streams.

MaxFrames == 3        \* frames of a loaded buffer
MaxBlock == 2         \* frames one stream callback is asked for
MaxStreams == 2       \* output streams that are open at the same time
MaxSeek == 3          \* seek times run from -1/8 s to MaxSeek/8 s

DefaultRate == 44100  \* the rate of a player that has loaded nothing
FileRate == 11        \* the rate of the files loaded (scaled, see above)
SampleRates == {FileRate}
ChannelCounts == {1, 2}
StreamIds == 1..MaxStreams

NoData == [len |-> 0 - 1, ch |-> 0]
Buffers == [len : 1..MaxFrames, ch : ChannelCounts]
ClosedStream == [st |-> "closed", channels |-> 0]
NoSess == [from |-> 0 - 1, start |-> 0 - 1, log |-> <<>>, done |-> FALSE]

\* get_duration and the frame seek computes.
get_duration(buf, rate) == IF buf # NoData THEN FloatOf(buf.len, rate) ELSE FloatOf(0, 1)
seek_frame(seconds, rate) == IntOf(FloatTimes(seconds, rate))

\* seek: the cursor it sets.
seek_position(seconds, rate, len) == Max(0, Min(seek_frame(seconds, rate), len))

\* The times seek is called with: eighths of a second around the buffer, and
\* the duration the player reports.
SeekTimes == { FloatOf(n, 8) : n \in (0 - 1)..MaxSeek } \cup { get_duration(data, samplerate) }

\* stream.active of sounddevice: started, and not yet inactive.
stream_active(s) == streams[s].st \in {"active", "draining"}

\* _on_finished, the finished_callback of every stream of the player.
OnFinished == [is_playing |-> FALSE, position |-> 0]

\* What stream.stop() / stream.close() inside stop() may do to the stream held.
StopOutcomes ==
    IF stream = 0 THEN {"ok"}
    ELSE IF stream_active(stream) THEN {"ok", "stop_raises", "close_raises"}
    ELSE {"ok", "close_raises"}

\* A variant of stop() that keeps the cursor, as pause() does.
player_stop_keeps_cursor(outc) ==
    [streams |-> IF stream = 0 THEN streams
                 ELSE IF outc = "stop_raises" THEN streams
                 ELSE IF outc = "close_raises" THEN [streams EXCEPT ![stream].st = "stopped"]
                 ELSE [streams EXCEPT ![stream] = ClosedStream],
     stream |-> 0, is_playing |-> FALSE, position |-> position]

\* stop(): the fields it leaves.  stream.stop() runs when the stream is
\* active and invokes _on_finished before it returns; an exception of stop()
\* skips close(); every exception is swallowed.
player_stop(outc) ==
    [streams |-> IF stream = 0 THEN streams
                 ELSE IF outc = "stop_raises" THEN streams
                 ELSE IF outc = "close_raises" THEN [streams EXCEPT ![stream].st = "stopped"]
                 ELSE [streams EXCEPT ![stream] = ClosedStream],
     stream |-> 0, is_playing |-> FALSE, position |-> 0]

load(buf, rate, ok) ==
    /\ ~in_play /\ UNCHANGED in_play
    /\ IF ok
       THEN /\ data' = buf
            /\ samplerate' = rate
            /\ position' = 0
            /\ sess' = NoSess
       ELSE UNCHANGED <<data, samplerate, position, sess>>
    /\ UNCHANGED <<is_playing, stream, streams>>
    /\ UNCHANGED <<winVars, audVars, procVars, mgrVars, dubVars, recVars, fnVars>>

stop(outc) ==
    /\ ~in_play /\ UNCHANGED in_play
    /\ outc \in StopOutcomes
    /\ streams' = player_stop(outc).streams
    /\ stream' = player_stop(outc).stream
    /\ is_playing' = player_stop(outc).is_playing
    /\ position' = player_stop(outc).position
    /\ sess' = NoSess
    /\ UNCHANGED <<data, samplerate>>
    /\ UNCHANGED <<winVars, audVars, procVars, mgrVars, dubVars, recVars, fnVars>>

\* The smallest id of a stream that is not open in strs, 0 when all are open.
FreeStream(strs) ==
    IF \E s \in StreamIds : strs[s].st = "closed"
    THEN CHOOSE s \in StreamIds : strs[s].st = "closed" /\ \A r \in StreamIds : strs[r].st = "closed" => s <= r
    ELSE 0

\* play(), to the return of stream.start(): stop(), then a stream of
\* min(buffer channels, device channels) channels is opened and started.  res
\* is what sounddevice does: "ok", "open_fails" (query_devices or OutputStream
\* raises) or "start_fails"; the except clause sets is_playing to False.  The
\* audio thread of the started stream runs from here on, while play() has
\* still to set is_playing (play_return).
play(dev, outc, res) ==
    /\ ~in_play
    /\ in_play' = (data # NoData /\ res = "ok")
    /\ IF data = NoData
       THEN /\ outc = "ok" /\ res = "ok" /\ dev = 1
            /\ UNCHANGED <<position, is_playing, stream, streams, sess>>
       ELSE LET after == player_stop(outc)
                new == FreeStream(after.streams)
                channels == Min(data.ch, dev)
            IN /\ outc \in StopOutcomes
               /\ res # "open_fails" => new # 0
               /\ position' = after.position
               /\ is_playing' = after.is_playing
               /\ stream' = IF res = "open_fails" THEN 0 ELSE new
               /\ streams' = IF res = "open_fails" THEN after.streams
                             ELSE [after.streams EXCEPT ![new] =
                                      [st |-> IF res = "ok" THEN "active" ELSE "stopped",
                                       channels |-> channels]]
               /\ sess' = IF res = "ok" THEN [from |-> position, start |-> after.position,
                                                 log |-> <<>>, done |-> FALSE]
                           ELSE NoSess
    /\ UNCHANGED <<data, samplerate>>
    /\ UNCHANGED <<winVars, audVars, procVars, mgrVars, dubVars, recVars, fnVars>>

\* play(), its last statement after stream.start(): self.is_playing = True.
play_return ==
    /\ in_play
    /\ in_play' = FALSE
    /\ is_playing' = TRUE
    /\ UNCHANGED <<data, samplerate, position, stream, streams, sess>>
    /\ UNCHANGED <<winVars, audVars, procVars, mgrVars, dubVars, recVars, fnVars>>

\* pause(): stream.stop() on an active stream, which invokes _on_finished
\* before it returns; an exception of stream.stop() leaves pause().
pause(ok) ==
    /\ ~in_play /\ UNCHANGED in_play
    /\ IF stream # 0 /\ stream_active(stream)
       THEN IF ok
            THEN /\ streams' = [streams EXCEPT ![stream].st = "stopped"]
                 /\ position' = OnFinished.position
                 /\ is_playing' = FALSE
                 /\ sess' = NoSess
            ELSE UNCHANGED <<streams, position, is_playing, sess>>
       ELSE /\ ok
            /\ UNCHANGED <<streams, position, is_playing, sess>>
    /\ UNCHANGED <<data, samplerate, stream>>
    /\ UNCHANGED <<winVars, audVars, procVars, mgrVars, dubVars, recVars, fnVars>>

seek(seconds) ==
    /\ ~in_play /\ UNCHANGED in_play
    /\ IF data = NoData
       THEN UNCHANGED <<position, sess>>
       ELSE /\ position' = seek_position(seconds, samplerate, data.len)
            /\ sess' = NoSess
    /\ UNCHANGED <<data, samplerate, is_playing, stream, streams>>
    /\ UNCHANGED <<winVars, audVars, procVars, mgrVars, dubVars, recVars, fnVars>>

\* The block _callback writes for a request of `frames` frames: the frames
\* from the cursor (numbered from 1), then zeros.
Block(frames) ==
    [i \in 1..frames |-> IF position + i <= data.len THEN position + i ELSE 0]

\* outdata[:] = chunk of numpy: a chunk of `have` channels fits a block of
\* `want` channels when the counts are equal or the chunk has one channel,
\* which is broadcast; the assignment raises ValueError otherwise.
Fits(have, want) == have = want \/ have = 1

\* _callback on the audio thread of the open stream s.  Past the end it
\* writes silence and raises CallbackStop; a block of data.ch channels that
\* does not fit the stream's block raises and the stream aborts.
callback(s, frames) ==
    /\ UNCHANGED in_play
    /\ streams[s].st = "active"
    /\ LET mine == (s = stream /\ sess # NoSess)
           entry == [start |-> position, n |-> frames, out |-> Block(frames)]
       IN IF position >= data.len
          THEN /\ streams' = [streams EXCEPT ![s].st = "draining"]
               /\ sess' = IF mine THEN [sess EXCEPT !.log = Append(@, entry)] ELSE sess
               /\ UNCHANGED position
          ELSE IF ~Fits(data.ch, streams[s].channels)
          THEN /\ streams' = [streams EXCEPT ![s].st = "draining"]
               /\ UNCHANGED <<position, sess>>
          ELSE /\ position' = Min(position + frames, data.len)
               /\ sess' = IF mine THEN [sess EXCEPT !.log = Append(@, entry)] ELSE NoSess
               /\ UNCHANGED streams
    /\ UNCHANGED <<data, samplerate, is_playing, stream>>
    /\ UNCHANGED <<winVars, audVars, procVars, mgrVars, dubVars, recVars, fnVars>>

\* The stream s becomes inactive after its callback stopped or aborted it,
\* and the audio thread invokes _on_finished.
finished(s) ==
    /\ UNCHANGED in_play
    /\ streams[s].st = "draining"
    /\ streams' = [streams EXCEPT ![s].st = "stopped"]
    /\ is_playing' = OnFinished.is_playing
    /\ position' = OnFinished.position
    /\ sess' = IF s = stream /\ sess # NoSess THEN [sess EXCEPT !.done = TRUE] ELSE NoSess
    /\ UNCHANGED <<data, samplerate, stream>>
    /\ UNCHANGED <<winVars, audVars, procVars, mgrVars, dubVars, recVars, fnVars>>

PlayIdle ==
    /\ data = NoData
    /\ samplerate = DefaultRate
    /\ position = 0
    /\ is_playing = FALSE
    /\ in_play = FALSE
    /\ stream = 0
    /\ streams = [s \in StreamIds |-> ClosedStream]
    /\ sess = NoSess


NextPlayer ==
    \/ \E buf \in Buffers, rate \in SampleRates, ok \in BOOLEAN : load(buf, rate, ok)
    \/ \E dev \in ChannelCounts, outc \in {"ok", "stop_raises", "close_raises"},
          res \in {"ok", "open_fails", "start_fails"} : play(dev, outc, res)
    \/ play_return
    \/ \E ok \in BOOLEAN : pause(ok)
    \/ \E outc \in {"ok", "stop_raises", "close_raises"} : stop(outc)
    \/ \E seconds \in SeekTimes : seek(seconds)
    \/ \E s \in StreamIds, frames \in 1..MaxBlock : callback(s, frames)
    \/ \E s \in StreamIds : finished(s)

---------------------------------------------------------------------------
\* OverdubRecorder of src/audio/overdub.py.

MaxBacking == 3       \* frames of a loaded backing
MaxDur == 4           \* requested durations run from 1/2 s to MaxDur/2 s
MaxTakes == 2         \* record_overdub calls that open a stream

DubRates == {1, 2}    \* rates of the backing files (scaled, as SampleRates)
InSamples == {1, 2}   \* values the input device delivers (an untouched frame holds 0)
OutPaths == {"take"}
Durations == { FloatOf(n, 2) : n \in 1..MaxDur }
Backings == [len : 1..MaxBacking, ch : ChannelCounts]
NoTake == [pc |-> "idle", duration |-> FloatOf(0, 1), path |-> "", recorded |-> <<>>,
           idx |-> 0, st |-> "closed"]

\* The sample of the backing at frame i (from 1), channel c (from 1).
BackingSample(i, c) == 10 * i + c

\* len(recorded): int(duration * self.samplerate).
recorded_len(duration, rate) == IntOf(FloatTimes(duration, rate))

\* A variant of the mixdown that copies the whole backing and adds the take
\* over the frames both have.
mixdown_whole_backing(bd, recorded) ==
    [raised |-> FALSE,
     mixed |-> [i \in 1..bd.len |->
                  [c \in 1..bd.ch |->
                      IF c = 1 /\ i <= Len(recorded) THEN BackingSample(i, c) + recorded[i]
                      ELSE BackingSample(i, c)]]]

\* The mixdown: backing = backing_data[:len(recorded)], mixed = backing.copy(),
\* mixed[:len(recorded), 0] += recorded[:, 0].  The sum needs two slices of one
\* length (or a take of one frame, which numpy broadcasts); numpy raises
\* ValueError otherwise.
mixdown(bd, recorded) ==
    LET backing_len == Min(bd.len, Len(recorded))
        target == Min(backing_len, Len(recorded))
    IN IF target # Len(recorded) /\ Len(recorded) # 1
       THEN [raised |-> TRUE, mixed |-> <<>>]
       ELSE [raised |-> FALSE,
             mixed |-> [i \in 1..backing_len |->
                          [c \in 1..bd.ch |->
                              IF c = 1
                              THEN BackingSample(i, c) + recorded[IF Len(recorded) = 1 THEN 1 ELSE i]
                              ELSE BackingSample(i, c)]]]

load_backing(buf, rate, ok) ==
    /\ dub.pc = "idle"
    /\ IF ok
       THEN backing_data' = buf /\ dub_rate' = rate
       ELSE UNCHANGED <<backing_data, dub_rate>>
    /\ dub_result' = IF ok THEN "loaded" ELSE "load_raised"
    /\ UNCHANGED <<dub, dub_files, dub_opened>>
    /\ UNCHANGED <<winVars, audVars, procVars, mgrVars, playVars, recVars, fnVars>>

\* A variant of record_overdub that opens its stream before it looks at the
\* backing.
record_overdub_opens_first(duration, out_path, ok) ==
    /\ dub.pc = "idle"
    /\ dub_opened < MaxTakes
    /\ dub_opened' = dub_opened + 1
    /\ IF backing_data = NoData
       THEN /\ ok
            /\ dub_result' = "no_backing"
            /\ UNCHANGED dub
       ELSE /\ dub_result' = IF ok THEN "recording" ELSE "stream_raised"
            /\ dub' = IF ok
                      THEN [pc |-> "streaming", duration |-> duration, path |-> out_path,
                            recorded |-> [i \in 1..recorded_len(duration, dub_rate) |-> 0],
                            idx |-> 0, st |-> "active"]
                      ELSE NoTake
    /\ UNCHANGED <<backing_data, dub_rate, dub_files>>
    /\ UNCHANGED <<winVars, audVars, procVars, mgrVars, playVars, recVars, fnVars>>

\* record_overdub, to the point where its stream runs: the no-backing error,
\* or the capture buffer and the started stream (ok: sd.Stream opens).
record_overdub(duration, out_path, ok) ==
    /\ dub.pc = "idle"
    /\ IF backing_data = NoData
       THEN /\ ok
            /\ dub_result' = "no_backing"
            /\ UNCHANGED <<dub, dub_opened>>
       ELSE /\ dub_opened < MaxTakes
            /\ dub_opened' = dub_opened + 1
            /\ dub_result' = IF ok THEN "recording" ELSE "stream_raised"
            /\ dub' = IF ok
                      THEN [pc |-> "streaming", duration |-> duration, path |-> out_path,
                            recorded |-> [i \in 1..recorded_len(duration, dub_rate) |-> 0],
                            idx |-> 0, st |-> "active"]
                      ELSE NoTake
    /\ UNCHANGED <<backing_data, dub_rate, dub_files>>
    /\ UNCHANGED <<winVars, audVars, procVars, mgrVars, playVars, recVars, fnVars>>

\* A variant of the callback that captures what fits of the block before it
\* tests the end of the capture buffer.
dub_callback_writes_first(frames, v) ==
    /\ dub.pc = "streaming"
    /\ dub.st = "active"
    /\ LET end == dub.idx + frames
           captured == [i \in 1..Len(dub.recorded) |->
                           IF i > dub.idx /\ i <= end THEN v ELSE dub.recorded[i]]
       IN IF end > Len(dub.recorded) \/ backing_data.ch # 1
          THEN dub' = [dub EXCEPT !.recorded = captured, !.st = "stopped"]
          ELSE dub' = [dub EXCEPT !.recorded = captured, !.idx = end]
    /\ UNCHANGED <<backing_data, dub_rate, dub_files, dub_opened, dub_result>>
    /\ UNCHANGED <<winVars, audVars, procVars, mgrVars, playVars, recVars, fnVars>>

\* The callback of record_overdub's stream, for a block of `frames` frames
\* whose input samples are v.  The stream has one channel: a backing of more
\* channels does not fit outdata, the assignment raises and the stream aborts
\* with idx not advanced.
dub_callback(frames, v) ==
    /\ dub.pc = "streaming"
    /\ dub.st = "active"
    /\ LET end == dub.idx + frames
       IN IF end > Len(dub.recorded)
          THEN dub' = [dub EXCEPT !.st = "stopped"]
          ELSE LET captured == [i \in 1..Len(dub.recorded) |->
                                   IF i > dub.idx /\ i <= end THEN v ELSE dub.recorded[i]]
               IN IF backing_data.ch # 1
                  THEN dub' = [dub EXCEPT !.recorded = captured, !.st = "stopped"]
                  ELSE dub' = [dub EXCEPT !.recorded = captured, !.idx = end]
    /\ UNCHANGED <<backing_data, dub_rate, dub_files, dub_opened, dub_result>>
    /\ UNCHANGED <<winVars, audVars, procVars, mgrVars, playVars, recVars, fnVars>>

\* record_overdub, from the end of sd.sleep: the stream is closed, the mix is
\* made and written (ok: sf.write succeeds).
dub_mixdown(ok) ==
    /\ dub.pc = "streaming"
    /\ LET mixed == mixdown(backing_data, dub.recorded).mixed
       IN IF mixdown(backing_data, dub.recorded).raised
          THEN /\ ok
               /\ dub_result' = "ValueError"
               /\ UNCHANGED dub_files
          ELSE IF ok
          THEN /\ dub_result' = "ok"
               /\ dub_files' = (dub.path :> mixed) @@ dub_files
          ELSE /\ dub_result' = "write_raised"
               /\ UNCHANGED dub_files
    /\ dub' = NoTake
    /\ UNCHANGED <<backing_data, dub_rate, dub_opened>>
    /\ UNCHANGED <<winVars, audVars, procVars, mgrVars, playVars, recVars, fnVars>>

DubIdle ==
    /\ backing_data = NoData
    /\ dub_rate = DefaultRate
    /\ dub = NoTake
    /\ dub_files = <<>>
    /\ dub_opened = 0
    /\ dub_result = "none"

NextOverdub ==
    \/ \E buf \in Backings, rate \in DubRates, ok \in BOOLEAN : load_backing(buf, rate, ok)
    \/ \E duration \in Durations, out_path \in OutPaths, ok \in BOOLEAN :
          record_overdub(duration, out_path, ok)
    \/ \E frames \in 1..MaxBlock, v \in InSamples : dub_callback(frames, v)
    \/ \E ok \in BOOLEAN : dub_mixdown(ok)

---------------------------------------------------------------------------
\* LiveLevelMonitor and LiveRecorder of src/ui/record.py: the calls of the GUI
\* thread and the run() of each QThread, step by step.  QThread.start() on a
\* thread that is still running does nothing.

MaxSessions == 2      \* start_recording calls that begin a session
MaxBlocks == 2        \* blocks the recorder reads
MaxTicks == 2         \* the wall clock runs from 0 to MaxTicks ticks
TicksPerSecond == 2   \* resolution of the model's wall clock

NoTempPath == 0 - 1
IntSeconds(ticks) == ticks \div TicksPerSecond

\* f"muteone_recording_{int(time.time())}.wav": the path is told by its second.
temp_path(now) == IntSeconds(now)

RecEmit(ev) == rec_events' = Append(rec_events, ev)
BlocksRead == Cardinality({i \in 1..Len(rec_events) : rec_events[i][1] = "block"})

\* What the call site has asked for so far: nothing running ("free"), the
\* monitor ("mon"), the recorder ("rec"), or calls out of the order
\* stop_monitoring, start_recording, stop_recording, start_monitoring ("broken").
Protocol(from, to) == proto' = IF proto = from THEN to ELSE "broken"

start_monitoring ==
    /\ is_monitoring' = TRUE
    /\ mthread' = IF mthread = "idle" THEN "begin" ELSE mthread
    /\ Protocol("free", "mon")
    /\ UNCHANGED mon_open
    /\ UNCHANGED <<recorderVars, clock>>
    /\ UNCHANGED <<winVars, audVars, procVars, mgrVars, playVars, dubVars, fnVars>>

stop_monitoring ==
    /\ is_monitoring' = FALSE
    /\ Protocol("mon", "free")
    /\ UNCHANGED <<mthread, mon_open>>
    /\ UNCHANGED <<recorderVars, clock>>
    /\ UNCHANGED <<winVars, audVars, procVars, mgrVars, playVars, dubVars, fnVars>>

\* LiveLevelMonitor.run, to the while loop: the device is chosen and the
\* stream opened (ok), or the except clause reports the failure.
mon_run_open(ok) ==
    /\ mthread = "begin"
    /\ mthread' = IF ok THEN "loop" ELSE "idle"
    /\ mon_open' = IF ok THEN mon_open + 1 ELSE mon_open
    /\ UNCHANGED <<is_monitoring, proto>>
    /\ UNCHANGED <<recorderVars, clock>>
    /\ UNCHANGED <<winVars, audVars, procVars, mgrVars, playVars, dubVars, fnVars>>

\* The test of `while self.is_monitoring`.
mon_run_test ==
    /\ mthread = "loop"
    /\ mthread' = IF is_monitoring THEN "read" ELSE "close"
    /\ UNCHANGED <<is_monitoring, mon_open, proto>>
    /\ UNCHANGED <<recorderVars, clock>>
    /\ UNCHANGED <<winVars, audVars, procVars, mgrVars, playVars, dubVars, fnVars>>

\* stream.read returns a block and audio_level_updated is emitted.
mon_run_read ==
    /\ mthread = "read"
    /\ mthread' = "loop"
    /\ UNCHANGED <<is_monitoring, mon_open, proto>>
    /\ UNCHANGED <<recorderVars, clock>>
    /\ UNCHANGED <<winVars, audVars, procVars, mgrVars, playVars, dubVars, fnVars>>

\* stream.stop_stream(), stream.close(), p.terminate(); run() returns.
mon_run_close ==
    /\ mthread = "close"
    /\ mthread' = "idle"
    /\ mon_open' = mon_open - 1
    /\ UNCHANGED <<is_monitoring, proto>>
    /\ UNCHANGED <<recorderVars, clock>>
    /\ UNCHANGED <<winVars, audVars, procVars, mgrVars, playVars, dubVars, fnVars>>

start_recording ==
    /\ IF is_recording
       THEN UNCHANGED <<recorderVars>>
       ELSE /\ Len(session_paths) < MaxSessions
            /\ is_recording' = TRUE
            /\ audio_data' = 0
            /\ start_time' = clock
            /\ temp_file_path' = temp_path(clock)
            /\ rthread' = IF rthread = "idle" THEN "begin" ELSE rthread
            /\ session_paths' = Append(session_paths, temp_path(clock))
            /\ UNCHANGED <<rec_open, rec_events, rec_files>>
    /\ Protocol("free", "rec")
    /\ UNCHANGED <<monitorVars, clock>>
    /\ UNCHANGED <<winVars, audVars, procVars, mgrVars, playVars, dubVars, fnVars>>

stop_recording ==
    /\ is_recording' = FALSE
    /\ Protocol("rec", "free")
    /\ UNCHANGED <<audio_data, start_time, temp_file_path, rthread, session_paths,
                   rec_open, rec_events, rec_files>>
    /\ UNCHANGED <<monitorVars, clock>>
    /\ UNCHANGED <<winVars, audVars, procVars, mgrVars, playVars, dubVars, fnVars>>

\* LiveRecorder.run, to the while loop: the stream is opened and
\* recording_started emitted (ok), or the except clause emits error_occurred.
rec_run_open(ok) ==
    /\ rthread = "begin"
    /\ rthread' = IF ok THEN "loop" ELSE "idle"
    /\ rec_open' = IF ok THEN rec_open + 1 ELSE rec_open
    /\ RecEmit(IF ok THEN <<"started">> ELSE <<"error">>)
    /\ UNCHANGED <<is_recording, audio_data, start_time, temp_file_path, session_paths, rec_files>>
    /\ UNCHANGED <<monitorVars, proto, clock>>
    /\ UNCHANGED <<winVars, audVars, procVars, mgrVars, playVars, dubVars, fnVars>>

\* The test of `while self.is_recording`.
rec_run_test ==
    /\ rthread = "loop"
    /\ rthread' = IF is_recording THEN "read" ELSE "close"
    /\ UNCHANGED <<is_recording, audio_data, start_time, temp_file_path, session_paths,
                   rec_open, rec_events, rec_files>>
    /\ UNCHANGED <<monitorVars, proto, clock>>
    /\ UNCHANGED <<winVars, audVars, procVars, mgrVars, playVars, dubVars, fnVars>>

\* One pass of the loop body: the block is appended, audio_level_updated and
\* recording_time_updated (minutes and seconds of int(elapsed)) are emitted;
\* a failing read leaves run() through the except clause, the stream open.
rec_run_read(ok) ==
    /\ rthread = "read"
    /\ BlocksRead < MaxBlocks
    /\ IF ok
       THEN /\ audio_data' = audio_data + 1
            /\ RecEmit(<<"block", IntSeconds(clock - start_time)>>)
            /\ rthread' = "loop"
       ELSE /\ RecEmit(<<"error">>)
            /\ rthread' = "idle"
            /\ UNCHANGED audio_data
    /\ UNCHANGED <<is_recording, start_time, temp_file_path, session_paths, rec_open, rec_files>>
    /\ UNCHANGED <<monitorVars, proto, clock>>
    /\ UNCHANGED <<winVars, audVars, procVars, mgrVars, playVars, dubVars, fnVars>>

\* A variant of the end of run() that saves whenever a path is set.
rec_run_close_saves_always ==
    /\ rthread = "close"
    /\ rec_open' = rec_open - 1
    /\ rthread' = IF temp_file_path # NoTempPath THEN "save" ELSE "idle"
    /\ UNCHANGED <<is_recording, audio_data, start_time, temp_file_path, session_paths,
                   rec_events, rec_files>>
    /\ UNCHANGED <<monitorVars, proto, clock>>
    /\ UNCHANGED <<winVars, audVars, procVars, mgrVars, playVars, dubVars, fnVars>>

\* The end of run(): the stream is stopped and closed, and save_recording is
\* called when audio_data is not empty and a path is set.
rec_run_close ==
    /\ rthread = "close"
    /\ rec_open' = rec_open - 1
    /\ rthread' = IF audio_data > 0 /\ temp_file_path # NoTempPath THEN "save" ELSE "idle"
    /\ UNCHANGED <<is_recording, audio_data, start_time, temp_file_path, session_paths,
                   rec_events, rec_files>>
    /\ UNCHANGED <<monitorVars, proto, clock>>
    /\ UNCHANGED <<winVars, audVars, procVars, mgrVars, playVars, dubVars, fnVars>>

\* save_recording: the blocks are written to temp_file_path and
\* recording_stopped carries the path (ok), or error_occurred is emitted.
save_recording(ok) ==
    /\ rthread = "save"
    /\ rthread' = "idle"
    /\ IF ok
       THEN /\ rec_files' = (temp_file_path :> audio_data) @@ rec_files
            /\ RecEmit(<<"stopped", temp_file_path>>)
       ELSE /\ RecEmit(<<"error">>)
            /\ UNCHANGED rec_files
    /\ UNCHANGED <<is_recording, audio_data, start_time, temp_file_path, session_paths, rec_open>>
    /\ UNCHANGED <<monitorVars, proto, clock>>
    /\ UNCHANGED <<winVars, audVars, procVars, mgrVars, playVars, dubVars, fnVars>>

\* time.time() advances.
tick ==
    /\ clock < MaxTicks
    /\ clock' = clock + 1
    /\ UNCHANGED <<monitorVars, recorderVars, proto>>
    /\ UNCHANGED <<winVars, audVars, procVars, mgrVars, playVars, dubVars, fnVars>>

RecIdle ==
    /\ is_monitoring = FALSE
    /\ mthread = "idle"
    /\ mon_open = 0
    /\ is_recording = FALSE
    /\ audio_data = 0
    /\ temp_file_path = NoTempPath
    /\ start_time = 0
    /\ rthread = "idle"
    /\ rec_open = 0
    /\ rec_events = <<>>
    /\ rec_files = <<>>
    /\ session_paths = <<>>
    /\ proto = "free"
    /\ clock = 0

NextRecorder ==
    \/ start_monitoring
    \/ stop_monitoring
    \/ \E ok \in BOOLEAN : mon_run_open(ok)
    \/ mon_run_test
    \/ mon_run_read
    \/ mon_run_close
    \/ start_recording
    \/ stop_recording
    \/ \E ok \in BOOLEAN : rec_run_open(ok)
    \/ rec_run_test
    \/ \E ok \in BOOLEAN : rec_run_read(ok)
    \/ rec_run_close
    \/ \E ok \in BOOLEAN : save_recording(ok)
    \/ tick

---------------------------------------------------------------------------
\* The functions both pipelines compute before a job reaches its backend:
\* the shape of the buffer, the execution target and the model of a task.

MaxChannels == 3      \* channel counts of an input file: 1..MaxChannels

NoCall == [site |-> "none"]

\* torchaudio.load: a waveform of c channels, each told by its index.
Waveform(c) == [dim |-> 2, chans |-> [i \in 1..c |-> i]]

\* run() of src/audio/processor.py: waveform.repeat(2, 1) for one channel,
\* waveform[:2] for more than two.
audio_normalise(w) ==
    IF Len(w.chans) = 1 THEN [w EXCEPT !.chans = w.chans \o w.chans]
    ELSE IF Len(w.chans) > 2 THEN [w EXCEPT !.chans = SubSeq(w.chans, 1, 2)]
    ELSE w

\* _fix_tensor of src/processor.py on a tensor: dimensions are added or
\* dropped, the channels are left as they are.
fix_tensor(w, batch) ==
    LET t1 == IF w.dim = 1 THEN [w EXCEPT !.dim = 2]
              ELSE IF w.dim = 3 /\ ~batch THEN [w EXCEPT !.dim = 2]
              ELSE w
    IN IF batch /\ t1.dim = 2 THEN [t1 EXCEPT !.dim = 3] ELSE t1

\* The buffer a pipeline hands to its separation backend for a waveform:
\* "audio" is run() of src/audio/processor.py, "mdx" and "demucs" the two
\* branches of run() of src/processor.py.
BackendSites == {"audio", "mdx", "demucs"}
backend_input(site, w) ==
    CASE site = "audio"  -> audio_normalise(w)
      [] site = "mdx"    -> fix_tensor(w, FALSE)
      [] site = "demucs" -> fix_tensor(w, TRUE)

\* A job loads a file of c channels and prepares the backend's buffer.
prepare_input(site, c) ==
    /\ fed' = [site |-> site, channels |-> c, buffer |-> backend_input(site, Waveform(c))]
    /\ UNCHANGED <<picked, routed, chosen>>
    /\ UNCHANGED <<winVars, audVars, procVars, mgrVars, playVars, dubVars, recVars>>

\* What torch.backends.mps.is_available() does.
MpsProbes == {"available", "unavailable", "raises"}

\* ModelManager.__init__ of src/audio/processor.py: the mps probe is guarded
\* by try/except, then cuda, mps, cpu.
audio_device(cuda, mps) ==
    LET has_mps == (mps = "available")
    IN IF cuda THEN "cuda" ELSE IF has_mps THEN "mps" ELSE "cpu"

\* ModelManager.__init__ of src/model_manager.py: the given device, else
\* mps, cuda, cpu; NoDevice is device=None.
NoDevice == "None"
Devices == {"cuda", "mps", "cpu"}
manager_device(device, cuda, mps) ==
    IF device # NoDevice THEN device
    ELSE IF mps = "raises" THEN "raised"
    ELSE IF mps = "available" THEN "mps"
    ELSE IF cuda THEN "cuda"
    ELSE "cpu"

\* get_best_device of src/processor.py.
get_best_device(cuda, mps) ==
    IF mps = "raises" THEN "raised"
    ELSE IF mps = "available" THEN "mps"
    ELSE IF cuda THEN "cuda"
    ELSE "cpu"

\* The job of src/audio/processor.py is constructed: its ModelManager picks
\* the device run() uses.
audio_pick_device(cuda, mps) ==
    /\ picked' = [site |-> "audio", cuda |-> cuda, mps |-> mps, given |-> NoDevice,
                  manager |-> audio_device(cuda, mps), device |-> audio_device(cuda, mps)]
    /\ UNCHANGED <<fed, routed, chosen>>
    /\ UNCHANGED <<winVars, audVars, procVars, mgrVars, playVars, dubVars, recVars>>

\* ModelManager(device) followed by AudioProcessor(model_manager) of
\* src/processor.py, whose __init__ assigns get_best_device() to the
\* manager's device; a raising probe ends the construction.
window_pick_device(given, cuda, mps) ==
    /\ picked' = [site |-> "window", cuda |-> cuda, mps |-> mps, given |-> given,
                  manager |-> manager_device(given, cuda, mps),
                  device |-> IF manager_device(given, cuda, mps) = "raised" THEN "raised"
                             ELSE get_best_device(cuda, mps)]
    /\ UNCHANGED <<fed, routed, chosen>>
    /\ UNCHANGED <<winVars, audVars, procVars, mgrVars, playVars, dubVars, recVars>>

Tasks == {"vocals", "Vocals", "drums", "bass", "other"}

\* A variant of get_models_for_task that does not look at high_quality.
get_models_for_task_any_quality(task, high_quality) ==
    IF task = "vocals" THEN <<MdxVoc>> ELSE <<Demucs>>

\* ModelManager.get_models_for_task of src/audio/processor.py.
get_models_for_task(task, high_quality) ==
    IF task = "vocals" /\ high_quality THEN <<MdxVoc>> ELSE <<Demucs>>

route_task(task, high_quality) ==
    /\ routed' = [site |-> "audio", task |-> task, high_quality |-> high_quality,
                  models |-> get_models_for_task(task, high_quality)]
    /\ UNCHANGED <<fed, picked, chosen>>
    /\ UNCHANGED <<winVars, audVars, procVars, mgrVars, playVars, dubVars, recVars>>

\* ---- Input device selection of src/ui/record.py.

MaxDevices == 2       \* devices PyAudio lists: 0..MaxDevices

\* info['name'] of the devices, and str.lower() on them.
DeviceNames == {"Stereo Mix (Realtek)", "BlackHole 2ch", "Microphone"}
NameLower(name) ==
    CASE name = "Stereo Mix (Realtek)" -> "stereo mix (realtek)"
      [] name = "BlackHole 2ch"        -> "blackhole 2ch"
      [] name = "Microphone"           -> "microphone"
      [] OTHER                         -> name

\* any(k in name for k in ['stereo mix', 'loopback', 'blackhole']): the
\* strings of the model that contain one of the three keywords.
has_keyword(name) == name \in {"stereo mix (realtek)", "blackhole 2ch"}

DeviceInfos == [name : DeviceNames, maxInputChannels : {1, 2}]
RECURSIVE SeqsUpTo(_, _)
SeqsUpTo(S, n) ==
    IF n = 0 THEN {<<>>}
    ELSE SeqsUpTo(S, n - 1) \cup {Append(q, x) : q \in {r \in SeqsUpTo(S, n - 1) : Len(r) = n - 1}, x \in S}
DeviceLists == SeqsUpTo(DeviceInfos, MaxDevices)

\* input_device_index = None, and a host with no default input device.
NoIndex == 0 - 1
NoDefault == 0 - 1
Defaults(devices) == {NoDefault} \cup 0..(Len(devices) - 1)

\* A variant of the loop that does not look at maxInputChannels.
RECURSIVE scan_devices_any_channels(_, _)
scan_devices_any_channels(devices, i) ==
    IF i >= Len(devices) THEN NoIndex
    ELSE IF has_keyword(NameLower(devices[i + 1].name)) THEN i
    ELSE scan_devices_any_channels(devices, i + 1)

\* The for loop of run(), from device index i (devices[i + 1] is device i):
\* the first device whose lower-cased name holds a keyword and that has at
\* least 2 input channels, else None.
RECURSIVE scan_devices(_, _)
scan_devices(devices, i) ==
    IF i >= Len(devices) THEN NoIndex
    ELSE IF has_keyword(NameLower(devices[i + 1].name)) /\ devices[i + 1].maxInputChannels >= 2 THEN i
    ELSE scan_devices(devices, i + 1)

\* The device run() opens: the one the loop found, else the default input;
\* get_default_input_device_info raises when the host has none.
select_input_device(devices, default) ==
    LET found == scan_devices(devices, 0)
    IN IF found # NoIndex THEN [raised |-> FALSE, index |-> found]
       ELSE IF default = NoDefault THEN [raised |-> TRUE, index |-> NoIndex]
       ELSE [raised |-> FALSE, index |-> default]

\* LiveLevelMonitor.run and LiveRecorder.run hold the same selection code.
monitor_input_device(devices, default) == select_input_device(devices, default)
recorder_input_device(devices, default) == select_input_device(devices, default)

InputSites == {"monitor", "recorder"}

\* run() of one of the two threads selects its device on a host.
choose_input_device(site, devices, default) ==
    /\ chosen' = [site |-> site, devices |-> devices, default |-> default,
                  device |-> IF site = "monitor" THEN monitor_input_device(devices, default)
                             ELSE recorder_input_device(devices, default)]
    /\ UNCHANGED <<fed, picked, routed>>
    /\ UNCHANGED <<winVars, audVars, procVars, mgrVars, playVars, dubVars, recVars>>

NextDevices ==
    \E site \in InputSites, devices \in DeviceLists :
        \E default \in Defaults(devices) : choose_input_device(site, devices, default)

FnIdle == fed = NoCall /\ picked = NoCall /\ routed = NoCall /\ chosen = NoCall

BoothIdle == PlayIdle /\ DubIdle /\ RecIdle /\ FnIdle

NextFunctions ==
    \/ \E site \in BackendSites, c \in 1..MaxChannels : prepare_input(site, c)
    \/ \E cuda \in BOOLEAN, mps \in MpsProbes : audio_pick_device(cuda, mps)
    \/ \E given \in Devices \cup {NoDevice}, cuda \in BOOLEAN, mps \in MpsProbes :
          window_pick_device(given, cuda, mps)
    \/ \E task \in Tasks, high_quality \in BOOLEAN : route_task(task, high_quality)

---------------------------------------------------------------------------
\* Specifications.

InitWin == WinIdle /\ AudIdle /\ ProcIdle /\ MgrIdle /\ BoothIdle
SpecWin == InitWin /\ [][NextWin]_vars

InitAudio ==
    /\ WinIdle /\ ProcIdle /\ MgrIdle /\ BoothIdle
    /\ ajob = [j \in AJobs |-> NewAJob]
    /\ \E pre \in SUBSET PreExisting : outdir = [p \in pre |-> 0]
    /\ astatus = [j \in AJobs |-> <<>>]
    /\ aprogress = [j \in AJobs |-> <<>>]
    /\ acomplete = [j \in AJobs |-> <<>>]
    /\ aerror = [j \in AJobs |-> 0]
    /\ awrites = [j \in AJobs |-> <<>>]
SpecAudio == InitAudio /\ [][NextAudio]_vars

InitMgr == WinIdle /\ AudIdle /\ ProcIdle /\ MgrIdle /\ BoothIdle
SpecMgr == InitMgr /\ [][NextMgr]_vars

\* Jobs of either pipeline: a process drives the window's pipeline or
\* constructs QThread jobs, and the jobs of the one it drives run as above.
InitJobs == InitWin
NextJobs ==
    \/ AudIdle /\ NextWin
    \/ WinIdle /\ NextAudio
SpecJobs == InitJobs /\ [][NextJobs]_vars

\* The booth loads no separation model.
ProcUnused ==
    /\ loadAttempts = [m \in ModelNames |-> 0]
    /\ everFailed = {}
    /\ model_sources = <<>>
    /\ mdx_outputs = {}

InitPlayer == WinIdle /\ AudIdle /\ ProcUnused /\ MgrIdle /\ BoothIdle
SpecPlayer == InitPlayer /\ [][NextPlayer]_vars

\* The output path may hold an earlier file (here an empty one).
InitOverdub ==
    /\ WinIdle /\ AudIdle /\ ProcUnused /\ MgrIdle /\ PlayIdle /\ RecIdle /\ FnIdle
    /\ backing_data = NoData
    /\ dub_rate = DefaultRate
    /\ dub = NoTake
    /\ \E pre \in SUBSET OutPaths : dub_files = [p \in pre |-> <<>>]
    /\ dub_opened = 0
    /\ dub_result = "none"
SpecOverdub == InitOverdub /\ [][NextOverdub]_vars

InitRecorder == WinIdle /\ AudIdle /\ ProcUnused /\ MgrIdle /\ BoothIdle
SpecRecorder == InitRecorder /\ [][NextRecorder]_vars

InitFunctions == WinIdle /\ AudIdle /\ ProcUnused /\ MgrIdle /\ BoothIdle
SpecFunctions == InitFunctions /\ [][NextFunctions]_vars

SpecDevices == InitFunctions /\ [][NextDevices]_vars

---------------------------------------------------------------------------
\* Properties.

Ended(t) == job[t].pc \in {"returned", "end"}
ADone(j) == ajob[j].pc = "done"

CountIn(log, S) == Cardinality({i \in 1..Len(log) : log[i] \in S})

\* The status messages that close a run.
FinalStatuses == {"Processing complete", "Error"}

\* The sum of the stems whose label is not the removed instrument.
KeptSum(sources, instrument) ==
    SumSeq([i \in 1..Len(sources) |->
              IF Lower(sources[i]) # Lower(instrument) THEN Stems(sources)[i] ELSE 0])

\* C1: a job on which cancel() was called after it started and before it
\* finished ends without a completion carrying an output path and without
\* having written an output file.
C1_CancelEndsCancelled ==
    \A t \in Jobs :
        (wcancelHit[t] /\ Ended(t)) =>
            /\ wwrites[t] = <<>>
            /\ \A i \in 1..Len(wfinished[t]) : wfinished[t][i] = NoPath

\* C2: the output a multi-stem job has written when it succeeds is the sum of
\* every returned stem whose label is not the removed instrument.
C2_OutputIsSumOfKeptStems ==
    /\ \A t \in Jobs :
          (Ended(t) /\ Instrument(t) # "vocals" /\ wfinished[t] # <<>> /\ wfinished[t][1] # NoPath) =>
              /\ wwrites[t] # <<>>
              /\ wwrites[t][Len(wwrites[t])][3] = KeptSum(model_sources, Instrument(t))
    /\ \A j \in AJobs :
          (ADone(j) /\ acomplete[j] # <<>>) =>
              /\ awrites[j] # <<>>
              /\ awrites[j][Len(awrites[j])][3] = KeptSum(model_sources, ajob[j].instruments[1])

\* C3: on one manager, a model name whose first load_model_safely call failed
\* has had exactly one backend load attempt, and every later call for it
\* ends with the previously-failed error.
C3_FailedModelNotReloaded ==
    \A m \in ModelNames :
        mgrFirst[m] = "load_failed" =>
            /\ mgrAttempts[m] = 1
            /\ m \in failed_models
            /\ (mgrLast.name = m /\ mgrCalls[m] >= 2) => mgrLast.result = "previously_failed"

\* C3, its case: a model whose first load failed has been requested twice more.
C3_Witness ==
    \E m \in ModelNames :
        /\ mgrFirst[m] = "load_failed"
        /\ mgrCalls[m] >= 3
        /\ mgrLast.name = m

\* C4: once a model name has failed to load in some job of the process, no
\* later job makes a new backend load attempt for it.
C4_FailedSetProcessWide ==
    [][\A m \in ModelNames : m \in everFailed => loadAttempts'[m] = loadAttempts[m]]_vars

\* C5: no job writes to a path that existed before the job wrote to it.
C5_NoOverwrite ==
    /\ \A t \in Jobs : \A i \in 1..Len(wwrites[t]) : ~wwrites[t][i][2]
    /\ \A j \in AJobs : \A i \in 1..Len(awrites[j]) : ~awrites[j][i][2]

\* C6: the path save_output settles on is the canonical name when no file has
\* it, and otherwise the canonical name with _k for the smallest k >= 1 that no
\* file has; that path is the one written.
C6_SaveOutputSmallestFree ==
    \A j \in AJobs :
        ajob[j].path # NoPath =>
            LET stem == ajob[j].file
                ins == ajob[j].instruments[1]
                k == ajob[j].path[4]
            IN /\ k \in Nat
               /\ ajob[j].path = OutName(stem, ins, k)
               /\ OutName(stem, ins, k) \notin ajob[j].seen
               /\ \A i \in 0..(k - 1) : OutName(stem, ins, i) \in ajob[j].seen
               /\ awrites[j] # <<>> => awrites[j][1][1] = ajob[j].path

\* C6, its case: the canonical name and _1 existed, and _2 has been written.
C6_Witness ==
    \E j \in AJobs :
        /\ awrites[j] # <<>>
        /\ awrites[j][1][1] = OutName(ajob[j].file, ajob[j].instruments[1], 2)
        /\ OutName(ajob[j].file, ajob[j].instruments[1], 0) \in ajob[j].seen
        /\ OutName(ajob[j].file, ajob[j].instruments[1], 1) \in ajob[j].seen

\* C7: a run that has returned has emitted exactly one completion, carrying
\* the output path on success and the empty path on failure, and exactly one
\* final status message.
C7_ExactlyOneCompletion ==
    /\ \A t \in Jobs :
          Ended(t) =>
              /\ Len(wfinished[t]) = 1
              /\ wfinished[t][1] = job[t].ret
              /\ CountIn(wstatus[t], FinalStatuses) = 1
    /\ \A j \in AJobs :
          ADone(j) =>
              /\ Len(acomplete[j]) = 1
              /\ acomplete[j][1] = (IF awrites[j] # <<>> THEN ajob[j].path ELSE NoPath)
              /\ CountIn(astatus[j], FinalStatuses) = 1

\* C8: when a run has returned, a backend it obtained has been released.
C8_BackendReleased ==
    /\ \A t \in Jobs : (Ended(t) /\ job[t].backends # {}) => job[t].released
    /\ \A j \in AJobs : (ADone(j) /\ ajob[j].backends # {}) => ajob[j].released

\* C9: at most one run() of the shared pipeline is executing at any instant.
C9_AtMostOneRun ==
    Cardinality({t \in Jobs : job[t].pc \in RunPcs}) <= 1

\* C10: a job whose instrument is "vocals" never loads the multi-stem model,
\* and a job with another instrument never constructs the single-stem isolator.
C10_IsolatorIffVocals ==
    /\ \A t \in Jobs :
          job[t].pc \notin {"idle", "spawned"} =>
              IF Instrument(t) = "vocals"
              THEN "demucs" \notin job[t].backends
              ELSE "mdx" \notin job[t].backends
    /\ \A j \in AJobs :
          ajob[j].instruments # <<>> =>
              IF ajob[j].instruments[1] = "vocals"
              THEN "demucs" \notin ajob[j].backends
              ELSE "mdx" \notin ajob[j].backends

IsNonDecreasing(log) == \A i \in 1..Len(log) : \A k \in 1..Len(log) : i <= k => log[i] <= log[k]

\* C11: within one job the emitted progress values never decrease and lie in
\* 0..100, and a job that has emitted 100 has written its output and completes
\* with that output's path, never with the error completion.
C11_ProgressMonotone ==
    /\ \A t \in Jobs :
          /\ IsNonDecreasing(wprogress[t])
          /\ \A i \in 1..Len(wprogress[t]) : wprogress[t][i] \in 0..100
          /\ CountIn(wprogress[t], {100}) > 0 =>
                /\ wwrites[t] # <<>>
                /\ wfinished[t] # <<>>
                /\ \A i \in 1..Len(wfinished[t]) : wfinished[t][i] = wwrites[t][Len(wwrites[t])][1]
                /\ "Error" \notin {wstatus[t][i] : i \in 1..Len(wstatus[t])}
    /\ \A j \in AJobs :
          /\ IsNonDecreasing(aprogress[j])
          /\ \A i \in 1..Len(aprogress[j]) : aprogress[j][i] \in 0..100
          /\ CountIn(aprogress[j], {100}) > 0 =>
                /\ awrites[j] # <<>>
                /\ aerror[j] = 0
                /\ ADone(j) => acomplete[j] = <<awrites[j][Len(awrites[j])][1]>>

\* C11, its case: a QThread job has written its output and is done, having
\* emitted the milestones 10, 40, 70 and 100.
C11_Witness ==
    \E j \in AJobs : ADone(j) /\ aprogress[j] = <<10, 40, 70, 100>> /\ awrites[j] # <<>>

\* C12: a pause() that stops the active stream leaves the cursor at the frame
\* the stream had reached, not at zero, and leaves is_playing false; the
\* stream's finished notification is delivered before pause() returns.
C12_PausePreservesCursor ==
    [][(stream # 0 /\ stream_active(stream) /\ pause(TRUE)) =>
          (position' = position /\ ~is_playing')]_vars

\* C13: the first block a started stream delivers begins at the cursor the
\* player held just before play() was called.
C13_PlayFromCursor ==
    (sess # NoSess /\ sess.log # <<>>) => sess.log[1].start = sess.from

RECURSIVE Flatten(_)
Flatten(log) == IF log = <<>> THEN <<>> ELSE log[1].out \o Flatten(Tail(log))

\* C14: when a playback that nothing interrupted has signalled its natural
\* completion, the blocks delivered hold every frame from the cursor the stream
\* was started at to the end once and in order, then zeros up to the block size, and the player
\* is left not playing with the cursor at 0.
C14_PlaysToTheEnd ==
    sess.done =>
        LET flat == Flatten(sess.log)
            count == data.len - sess.start
        IN /\ Len(flat) >= count
           /\ \A i \in 1..Len(flat) : flat[i] = (IF i <= count THEN sess.start + i ELSE 0)
           /\ \A i \in 1..Len(sess.log) : Len(sess.log[i].out) = sess.log[i].n
           /\ ~is_playing
           /\ position = 0

\* C15: on a loaded player seek(s) sets the cursor to the frame of s clamped
\* to [0, frame count]; a negative s leaves what seek(0) leaves, an s beyond
\* the duration leaves what seek(duration) leaves, and seeking to s again
\* changes nothing.
C15_SeekClamps ==
    [][\A seconds \in SeekTimes :
          (data # NoData /\ seek(seconds)) =>
              /\ position' = Max(0, Min(seek_frame(seconds, samplerate), data.len))
              /\ FloatBelow(seconds, 0, 1) =>
                    position' = seek_position(FloatOf(0, 1), samplerate, data.len)
              /\ FloatAbove(seconds, data.len, samplerate) =>
                    position' = seek_position(get_duration(data, samplerate), samplerate, data.len)
              /\ seek_position(seconds, samplerate', data'.len) = position']_vars

\* C16: stop() can be called in every state in which the caller is not
\* inside play(), and returns normally; it leaves stream = None, is_playing
\* false and the cursor at 0, whatever the stream held does on stop and
\* close, and a second stop() would change nothing.
C16_StopIdempotent ==
    /\ [](~in_play => ENABLED (\E outc \in StopOutcomes : stop(outc)))
    /\ [][\A outc \in StopOutcomes :
            stop(outc) =>
                /\ stream' = 0 /\ ~is_playing' /\ position' = 0
                /\ StopOutcomes' = {"ok"}
                /\ player_stop("ok")' = [streams |-> streams', stream |-> stream',
                                          is_playing |-> is_playing', position |-> position']]_vars

\* C16, its case: stop() has returned on a player whose stream did not close;
\* the player holds no stream, does not play and is at frame 0.
C16_Witness ==
    /\ stream = 0 /\ ~is_playing /\ position = 0
    /\ \E s \in StreamIds : streams[s].st = "stopped"

\* C17: every open output stream is the one the player holds, so at most one
\* is open, and no stream the player has let go of is still running.
C17_OneOpenStream ==
    \A s \in StreamIds : streams[s].st # "closed" => s = stream

\* C18: for a loaded backing and a requested duration, longer than the backing
\* or not, record_overdub whose stream and file write succeed completes, and
\* the mix it writes holds, over the frames both the backing and the take
\* have, the backing with the take added into channel 0, and the backing in
\* every other channel and frame.
C18_MixIsBackingPlusTake ==
    [][dub_mixdown(TRUE) =>
          /\ dub_result' = "ok"
          /\ LET mix == dub_files'[dub.path]
                 n == Min(backing_data.len, Len(dub.recorded))
             IN /\ Len(mix) >= n
                /\ \A i \in 1..Len(mix) : \A c \in 1..backing_data.ch :
                      mix[i][c] = IF c = 1 /\ i <= n
                                  THEN BackingSample(i, c) + dub.recorded[i]
                                  ELSE BackingSample(i, c)]_vars

\* C19: when the backing is at least as long as the capture buffer, the mix
\* record_overdub writes has exactly duration x samplerate frames (the whole
\* number of frames in the duration): the rest of the backing is absent.
C19_MixHasDurationFrames ==
    [][(dub_mixdown(TRUE) /\ backing_data.len >= Len(dub.recorded)) =>
          /\ dub_result' = "ok"
          /\ LET n == Len(dub_files'[dub.path])
             IN /\ n = Len(dub.recorded)
                /\ ~FloatBelow(dub.duration, n, dub_rate)
                /\ FloatBelow(dub.duration, n + 1, dub_rate)]_vars

\* C19, its case: a mix was written from a backing longer than it.
C19_Witness ==
    /\ dub_result = "ok"
    /\ \E p \in DOMAIN dub_files : Len(dub_files[p]) >= 1 /\ Len(dub_files[p]) < backing_data.len

\* C20: record_overdub with no backing loaded ends with the no-backing error,
\* having opened no stream, made no capture buffer and left the output path
\* and the recorder as they were.
C20_NoBackingFails ==
    [][\A duration \in Durations, out_path \in OutPaths :
          (backing_data = NoData /\ record_overdub(duration, out_path, TRUE)) =>
              /\ dub_result' = "no_backing"
              /\ UNCHANGED <<backing_data, dub_rate, dub, dub_files, dub_opened>>]_vars

\* C20, its case: the call failed on a recorder without backing whose output
\* path holds an earlier file.
C20_Witness ==
    /\ dub_result = "no_backing"
    /\ backing_data = NoData
    /\ dub_files # <<>>
---------------------------------------------------------------------------
\* Claims on the recorder and the level monitor, under SpecRecorder.

\* C21: when run() leaves its loop with no block captured (stop_recording took
\* effect before the first read), the thread ends there: no file is written
\* and no event, so no recording_stopped with a path, is emitted.
C21_NoBlockNoFile ==
    [][(rthread = "close" /\ audio_data = 0 /\ rthread' # "close")
         => (rthread' = "idle" /\ rec_files' = rec_files /\ rec_events' = rec_events)]_vars

\* A session that emitted recording_started and ended without a block and
\* without a file.
C21_Witness ==
    /\ rthread = "idle"
    /\ ~is_recording
    /\ rec_events = << <<"started">> >>
    /\ rec_files = <<>>

\* C22 (as a property of finished runs): when run() has returned, the last
\* event the recorder emitted is recording_stopped or error_occurred.
C22_SessionEndsWithStopped ==
    (rthread = "idle" /\ Len(rec_events) > 0)
        => rec_events[Len(rec_events)][1] \in {"stopped", "error"}

\* C23: any two recording sessions are given distinct temporary file paths.
C23_DistinctPaths ==
    \A i, j \in 1..Len(session_paths) : i # j => session_paths[i] # session_paths[j]

\* C24: between two recording_started events no two elapsed-time events carry
\* the same elapsed second.
C24_OneTimeEventPerSecond ==
    \A i, j \in 1..Len(rec_events) :
        (/\ i < j
         /\ rec_events[i][1] = "block"
         /\ rec_events[j][1] = "block"
         /\ \A k \in i..j : rec_events[k][1] # "started")
            => rec_events[i][2] # rec_events[j][2]

\* C25: while the calls follow the order stop_monitoring, start_recording,
\* stop_recording, start_monitoring, the monitor's stream and the recorder's
\* stream are never open at the same time.
C25_StreamsExclusive ==
    proto # "broken" => ~(mon_open > 0 /\ rec_open > 0)

\* C26: once stop_monitoring has returned (is_monitoring is false) the
\* monitor's stream is closed and the monitor emits no level event.
C26_StopMonitoringWaits ==
    /\ [](~is_monitoring => mon_open = 0)
    /\ [][~is_monitoring => ~mon_run_read]_vars

---------------------------------------------------------------------------
\* Claims on the pure functions of the two pipelines.

\* A mix, as a sum of stem weights, holds the stem of this label.
HasStem(content, label) == Weight(label) > 0 /\ (content \div Weight(label)) % 2 = 1

\* C27: no output either pipeline writes holds the stem whose label equals
\* the requested instrument ignoring case.
C27_RemovedStemExcluded ==
    /\ \A t \in Jobs : \A i \in 1..Len(wwrites[t]) :
          ~HasStem(wwrites[t][i][3], Instrument(t))
    /\ \A j \in AJobs : \A i \in 1..Len(awrites[j]) :
          ajob[j].instruments # <<>> => ~HasStem(awrites[j][i][3], ajob[j].instruments[1])

\* C28: the buffer a pipeline hands to its backend has exactly 2 channels,
\* the one channel of a mono input twice, the first 2 of a wider input.
C28_BackendGetsTwoChannels ==
    fed # NoCall =>
        /\ Len(fed.buffer.chans) = 2
        /\ fed.channels = 1 => fed.buffer.chans = <<1, 1>>
        /\ fed.channels > 2 => fed.buffer.chans = <<1, 2>>

\* The fixed priority of the execution targets.
Priority(cuda, mps) ==
    IF cuda THEN "cuda" ELSE IF mps = "available" THEN "mps" ELSE "cpu"

\* C29: the execution target of a constructed job is cuda whenever cuda is
\* available, mps only when cuda is not, cpu only when neither is.
C29_DevicePriority ==
    (picked # NoCall /\ picked.device # "raised")
        => picked.device = Priority(picked.cuda, picked.mps)

\* C30: get_models_for_task returns exactly one model, one that is_mdx_model
\* classifies as MDX exactly when the task is "vocals" with high quality.
C30_RoutesToOneModel ==
    routed # NoCall =>
        /\ Len(routed.models) = 1
        /\ is_mdx_model(routed.models[1])
              <=> (routed.task = "vocals" /\ routed.high_quality)

\* Both routes have been taken: here the single-stem isolator.
C30_Witness ==
    /\ routed # NoCall
    /\ routed.task = "vocals"
    /\ routed.high_quality
    /\ routed.models = <<MdxVoc>>


---------------------------------------------------------------------------
\* Claims of the last group.

\* C31: a device given to ModelManager is the device the pipeline built on
\* that manager uses; no probed device takes its place.
C31_GivenDeviceIsUsed ==
    (picked # NoCall /\ picked.site = "window" /\ picked.given # NoDevice)
        => picked.device = picked.given

\* C32: during an overdub the write offset stays within 0..len(recorded) and
\* never decreases, a callback writes only the frames idx..end of the capture
\* buffer, and a callback whose block would pass the end of the buffer stops
\* the stream and writes nothing.
C32_WriteOffsetInBounds ==
    /\ [](dub.pc = "streaming" => (0 <= dub.idx /\ dub.idx <= Len(dub.recorded)))
    /\ [][(dub.pc = "streaming" /\ dub'.pc = "streaming")
            => (dub'.idx >= dub.idx /\ Len(dub'.recorded) = Len(dub.recorded))]_vars
    /\ [][\A frames \in 1..MaxBlock, v \in InSamples :
            dub_callback(frames, v) =>
                /\ \A i \in 1..Len(dub.recorded) :
                      (i <= dub.idx \/ i > dub.idx + frames) => dub'.recorded[i] = dub.recorded[i]
                /\ dub.idx + frames > Len(dub.recorded) =>
                      (dub'.recorded = dub.recorded /\ dub'.st = "stopped" /\ dub'.idx = dub.idx)]_vars

\* A stream that captured blocks and was then stopped by the block that did
\* not fit.
C32_Witness ==
    /\ dub.pc = "streaming"
    /\ dub.st = "stopped"
    /\ backing_data.ch = 1
    /\ dub.idx > 0
    /\ dub.idx < Len(dub.recorded)

\* C33: a callback of the player or of the overdub recorder either fills its
\* whole block and goes on, or, with its cursor at the end, fills the block
\* with silence and signals stop; it ends in no other way.
C33_CallbacksNeverRaise ==
    /\ [][\A s \in StreamIds, frames \in 1..MaxBlock :
            callback(s, frames) =>
                \/ streams'[s].st = "active" /\ position' = Min(position + frames, data.len)
                \/ position >= data.len /\ streams'[s].st = "draining"]_vars
    /\ [][\A frames \in 1..MaxBlock, v \in InSamples :
            dub_callback(frames, v) =>
                \/ dub'.st = "active" /\ dub'.idx = dub.idx + frames
                \/ dub.idx + frames > Len(dub.recorded) /\ dub'.st = "stopped"]_vars

\* The devices of a list that qualify: a loopback name, whatever its letter
\* case, and at least 2 input channels.
LoopbackNames == {"Stereo Mix (Realtek)", "BlackHole 2ch"}
Qualifying(devices) ==
    {i \in 0..(Len(devices) - 1) :
        devices[i + 1].name \in LoopbackNames /\ devices[i + 1].maxInputChannels >= 2}

\* C34: the device a thread selects is the qualifying device of lowest
\* index, the default input when none qualifies, and the monitor and the
\* recorder select the same device on the same host.
C34_InputDeviceSelection ==
    chosen # NoCall =>
        LET Q == Qualifying(chosen.devices)
        IN /\ Q # {} => (~chosen.device.raised /\ chosen.device.index \in Q
                          /\ \A i \in Q : chosen.device.index <= i)
           /\ (Q = {} /\ chosen.default # NoDefault) =>
                  (~chosen.device.raised /\ chosen.device.index = chosen.default)
           /\ monitor_input_device(chosen.devices, chosen.default)
                  = recorder_input_device(chosen.devices, chosen.default)

\* A host whose first loopback device has one channel and whose second has
\* two: the second is selected, not the default.
C34_Witness ==
    /\ chosen # NoCall
    /\ Len(chosen.devices) = 2
    /\ chosen.devices[1].name \in LoopbackNames
    /\ chosen.devices[1].maxInputChannels = 1
    /\ chosen.default = 0
    /\ chosen.device = [raised |-> FALSE, index |-> 1]

\* C35: a call load_model_safely(name) changes failed_models only by adding
\* name, and only when the load it attempts fails; a successful load and a
\* previously-failed rejection leave the set as it was, and no step removes
\* an entry.
C35_FailedSetFrame ==
    /\ [][failed_models \subseteq failed_models']_vars
    /\ [][\A name \in ModelNames, ok \in BOOLEAN :
            mgr_load_model_safely(name, ok) =>
                /\ (failed_models' \ failed_models) \subseteq {name}
                /\ (name \in failed_models \/ ok) => failed_models' = failed_models
                /\ (name \notin failed_models /\ ~ok) => failed_models' = failed_models \cup {name}]_vars

\* A model has failed, and the last call loaded another model and left the
\* entry in place.
C35_Witness ==
    /\ failed_models # {}
    /\ mgrLast.result = "loaded"
    /\ mgrLast.name \notin failed_models

\* C36: when the single-stem backend yields no instrumental stem in a call,
\* the job ends there as failed: the empty completion is emitted, no output
\* is written and no model is loaded in its place.
C36_MissingStemFailsJob ==
    [][\A t \in Jobs :
          (job[t].sep = "loaded" /\ mdx_separate(t, "missing")) =>
              /\ job'[t].pc = "end"
              /\ wfinished'[t] = Append(wfinished[t], NoPath)
              /\ wwrites' = wwrites
              /\ loadAttempts' = loadAttempts]_vars

\* C37: the blocks the recorder holds are dropped only after the thread that
\* captured them has finished with them, and while is_recording is true the
\* capture thread has not returned from run(), unless run() ended with an
\* error event.
C37_SessionsKeepTheirBlocks ==
    /\ [][(audio_data > 0 /\ audio_data' = 0) => rthread = "idle"]_vars
    /\ []((is_recording /\ rthread = "idle")
            => (rec_events # <<>> /\ rec_events[Len(rec_events)][1] = "error"))

\* C38: whenever the player is not inside play(), is_playing is true only
\* while it holds a stream that is active.
C38_PlayingMeansActiveStream ==
    (~in_play /\ is_playing) => (stream # 0 /\ stream_active(stream))
=============================================================================
